---- MODULE Spec2Model ----
(***************************************************************************)
(* A model of the reference validator (src/validate_bibtex.py): the        *)
(* normalizer, the field comparator, the priority merger, the review       *)
(* session handlers and the rate-limited, concurrent source adapters.      *)
(*                                                                         *)
(* Text values are sequences of one-character strings, so that the string  *)
(* operations of the code (replace, strip, lower, split, startswith) are   *)
(* computed character by character, as the code computes them.            *)
(***************************************************************************)
EXTENDS Integers, Sequences, FiniteSets, TLC

VARIABLES
    fnArg,      \* pure-function harness: the argument (a string or a raw entry)
    fnField,    \* pure-function harness: the field name passed along
    fnOut,      \* pure-function harness: the result of the first application
    fnOut2,     \* pure-function harness: the result of applying it to fnOut
    fnStep,     \* pure-function harness: how many applications were done
    db,         \* validator.db.entries: the record store, a list of entry dicts
    results,    \* app.state.results: one ValidationResult per entry, same order
    registries, \* per entry, what each registry holds for it (the environment)
    loaded,     \* history: the store as it was loaded, before any operation
    lastOp,     \* history: the last session operation and its response
    served,     \* how many requests the review page has sent so far
    phase,      \* where the main thread of the running operation is
    futures,    \* _fetch_concurrently: the sources whose future is outstanding
    concurrent_results, \* _fetch_concurrently: the records, in arrival order
    update_bib, \* validate_all: the validator's update_bib flag
    started,    \* validate_all: how many entries the pool's workers have taken
    running,    \* validate_all: the entries a worker is validating
    completion_order,   \* history: the entries in the order they completed
    now,        \* the clock, in seconds
    threads,    \* per thread, the adapter call it runs and where it is in it
    arxiv_lock, \* self.arxiv_lock: the thread that holds it, or 0
    request_log \* history: the requests that went out (per source, their times)

fnVars == <<fnArg, fnField, fnOut, fnOut2, fnStep>>
sessionVars == <<db, results, registries, loaded, lastOp, served>>
fetchVars == <<phase, futures, concurrent_results>>
poolVars == <<update_bib, started, running, completion_order>>
rateVars == <<now, threads, arxiv_lock, request_log>>

\* what the steps of each part leave alone
notFn == <<sessionVars, fetchVars, poolVars, rateVars>>
notSession == <<fnVars, fetchVars, poolVars, rateVars>>
notFetch == <<fnVars, loaded, lastOp, served, poolVars, rateVars>>
notPool == <<fnVars, loaded, lastOp, served, futures, concurrent_results, rateVars>>
notRate == <<fnVars, sessionVars, fetchVars, poolVars>>

vars == <<fnArg, fnField, fnOut, fnOut2, fnStep, db, results, registries, loaded, lastOp, served,
          phase, futures, concurrent_results, update_bib, started, running,
          completion_order, now, threads, arxiv_lock, request_log>>

\* Python's None: a value no text value equals
None == <<"__none__">>

(***************************************************************************)
(* Strings                                                                 *)
(***************************************************************************)

\* str.lower() on the letters that occur in the model's values
UpperToLower ==
    ("A" :> "a") @@ ("B" :> "b") @@ ("C" :> "c") @@ ("D" :> "d") @@ ("E" :> "e") @@
    ("F" :> "f") @@ ("G" :> "g") @@ ("H" :> "h") @@ ("I" :> "i") @@ ("J" :> "j") @@
    ("K" :> "k") @@ ("L" :> "l") @@ ("M" :> "m") @@ ("N" :> "n") @@ ("O" :> "o") @@
    ("P" :> "p") @@ ("Q" :> "q") @@ ("R" :> "r") @@ ("S" :> "s") @@ ("T" :> "t") @@
    ("U" :> "u") @@ ("V" :> "v") @@ ("W" :> "w") @@ ("X" :> "x") @@ ("Y" :> "y") @@
    ("Z" :> "z")

LowerChar(c) == IF c \in DOMAIN UpperToLower THEN UpperToLower[c] ELSE c

Lower(s) == [i \in 1..Len(s) |-> LowerChar(s[i])]

IsSpace(c) == c = " "

RECURSIVE LStrip(_)
LStrip(s) == IF s # <<>> /\ IsSpace(Head(s)) THEN LStrip(Tail(s)) ELSE s

RECURSIVE RStrip(_)
RStrip(s) ==
    IF s # <<>> /\ IsSpace(s[Len(s)]) THEN RStrip(SubSeq(s, 1, Len(s) - 1)) ELSE s

\* str.strip()
Strip(s) == RStrip(LStrip(s))

\* str.rstrip(chars)
RECURSIVE RStripChars(_, _)
RStripChars(s, chars) ==
    IF s # <<>> /\ s[Len(s)] \in chars
    THEN RStripChars(SubSeq(s, 1, Len(s) - 1), chars)
    ELSE s

\* s[i-1:j] of Python: a slice never fails, it is cut at the end of s
Slice(s, i, j) ==
    IF i > Len(s) THEN <<>> ELSE SubSeq(s, i, IF j > Len(s) THEN Len(s) ELSE j)

StartsWith(s, pat) == Len(s) >= Len(pat) /\ SubSeq(s, 1, Len(pat)) = pat

\* pat in s
Contains(s, pat) ==
    \E i \in 1..(Len(s) - Len(pat) + 1) : SubSeq(s, i, i + Len(pat) - 1) = pat

\* str.replace(pat, rep): left to right, non-overlapping
RECURSIVE Replace(_, _, _)
Replace(s, pat, rep) ==
    IF Len(s) < Len(pat) THEN s
    ELSE IF SubSeq(s, 1, Len(pat)) = pat
         THEN rep \o Replace(SubSeq(s, Len(pat) + 1, Len(s)), pat, rep)
         ELSE <<Head(s)>> \o Replace(Tail(s), pat, rep)

\* re.sub(r"[chars]", "", s)
RECURSIVE RemoveChars(_, _)
RemoveChars(s, chars) ==
    IF s = <<>> THEN <<>>
    ELSE IF Head(s) \in chars THEN RemoveChars(Tail(s), chars)
         ELSE <<Head(s)>> \o RemoveChars(Tail(s), chars)

\* s.split(sep)[0]
RECURSIVE SplitFirst(_, _)
SplitFirst(s, sep) ==
    IF s = <<>> \/ Head(s) = sep THEN <<>>
    ELSE <<Head(s)>> \o SplitFirst(Tail(s), sep)

CharSet(s) == {s[i] : i \in 1..Len(s)}

(***************************************************************************)
(* normalize_string_for_comparison                                         *)
(***************************************************************************)

AMP == <<"&">>
ENT_AMP == <<"&", "a", "m", "p", ";">>
ENT_LT == <<"&", "l", "t", ";">>
ENT_GT == <<"&", "g", "t", ";">>
ENT_QUOT == <<"&", "q", "u", "o", "t", ";">>

\* src 1344-1352: remove LaTeX braces, then the escaped characters
StripLatex(s) ==
    Replace(Replace(Replace(Replace(RemoveChars(s, {"{", "}"}),
        <<"\\", "&">>, <<"&">>), <<"\\", "%">>, <<"%">>),
        <<"\\", "$">>, <<"$">>), <<"\\", "#">>, <<"#">>)

\* src 1353-1359: decode the four HTML entities, in this order, one pass each
DecodeEntities(s) ==
    Replace(Replace(Replace(Replace(s, ENT_AMP, AMP), ENT_LT, <<"<">>),
        ENT_GT, <<">">>), ENT_QUOT, <<"\"">>)

\* src 1364-1370: first of several ISSNs, hyphens removed, lowercase
NormalizeIssn(s) ==
    Lower(RemoveChars(IF "," \in CharSet(s) THEN Strip(SplitFirst(s, ",")) ELSE s,
                      {"-"}))

normalize_string_for_comparison(s, field_name) ==
    IF s = <<>> THEN <<>>
    ELSE IF field_name = "entrytype" \/ field_name = "ENTRYTYPE" THEN Strip(Lower(s))
    ELSE LET ByField(t) ==
                 CASE field_name = "issn" -> NormalizeIssn(t)
                   [] field_name \in {"title", "doi", "author", "journal"} -> Lower(t)
                   [] OTHER -> t
         IN  ByField(Strip(DecodeEntities(StripLatex(s))))

(***************************************************************************)
(* Entries, and the Normalizer (normalize_entry)                           *)
(***************************************************************************)

\* dict helpers: a dict is a function from keys to values
Get(d, k, default) == IF k \in DOMAIN d THEN d[k] ELSE default
Put(d, k, v) == [x \in DOMAIN d \cup {k} |-> IF x = k THEN v ELSE d[x]]
Pop(d, k) == [x \in DOMAIN d \ {k} |-> d[x]]
EmptyDict == [k \in {} |-> <<>>]

Digits == {"0", "1", "2", "3", "4", "5", "6", "7", "8", "9"}

IsDigits(s) == \A i \in 1..Len(s) : s[i] \in Digits

P_HTTPS_DOI == <<"h", "t", "t", "p", "s", ":", "/", "/", "d", "o", "i", ".", "o", "r", "g", "/">>
P_HTTP_DOI == <<"h", "t", "t", "p", ":", "/", "/", "d", "o", "i", ".", "o", "r", "g", "/">>
P_HTTPS_DX_DOI == <<"h", "t", "t", "p", "s", ":", "/", "/", "d", "x", ".", "d", "o", "i", ".", "o", "r", "g", "/">>
P_HTTP_DX_DOI == <<"h", "t", "t", "p", ":", "/", "/", "d", "x", ".", "d", "o", "i", ".", "o", "r", "g", "/">>
P_DOI_COLON == <<"d", "o", "i", ":">>
P_TEN_DOT == <<"1", "0", ".">>
P_ARXIV_DOI == <<"1", "0", ".", "4", "8", "5", "5", "0", "/", "a", "r", "x", "i", "v", ".">>
P_ZENODO == <<"z", "e", "n", "o", "d", "o">>
P_ZENODO_PREFIX == <<"1", "0", ".", "5", "2", "8", "1", "/">>
P_PROCEEDINGS == <<"p", "r", "o", "c", "e", "e", "d", "i", "n", "g", "s">>

T_misc == <<"m", "i", "s", "c">>
T_article == <<"a", "r", "t", "i", "c", "l", "e">>
T_inproceedings == <<"i", "n", "p", "r", "o", "c", "e", "e", "d", "i", "n", "g", "s">>
T_proceedings == <<"p", "r", "o", "c", "e", "e", "d", "i", "n", "g", "s">>
T_techreport == <<"t", "e", "c", "h", "r", "e", "p", "o", "r", "t">>
T_conference == <<"c", "o", "n", "f", "e", "r", "e", "n", "c", "e">>
T_online == <<"o", "n", "l", "i", "n", "e">>
T_report == <<"r", "e", "p", "o", "r", "t">>
T_book == <<"b", "o", "o", "k">>
T_incollection == <<"i", "n", "c", "o", "l", "l", "e", "c", "t", "i", "o", "n">>
T_phdthesis == <<"p", "h", "d", "t", "h", "e", "s", "i", "s">>
T_mastersthesis == <<"m", "a", "s", "t", "e", "r", "s", "t", "h", "e", "s", "i", "s">>
T_inbook == <<"i", "n", "b", "o", "o", "k">>

\* an entry as BibEntry holds it: the type, the citation key, the fields
BibEntry(entry_type, citekey, fields) ==
    [entry_type |-> entry_type, citekey |-> citekey, fields |-> fields]

\* re.search(r"\d{4}", val): the first run of four digits, or None
FirstYear(val) ==
    LET hits == {i \in 1..(Len(val) - 3) : IsDigits(SubSeq(val, i, i + 3))}
    IN  IF hits = {} THEN None
        ELSE LET i == CHOOSE j \in hits : \A k \in hits : j <= k
             IN  SubSeq(val, i, i + 3)

\* src 454-467: one BibLaTeX -> BibTeX field mapping
ApplyMapping(fs, biblatex, bibtex) ==
    IF biblatex \notin DOMAIN fs THEN fs
    ELSE IF bibtex \notin DOMAIN fs
         THEN LET val == fs[biblatex]
                  rest == Pop(fs, biblatex)
              IN  IF biblatex = "date" /\ val # <<>>
                  THEN IF FirstYear(val) # None
                       THEN Put(rest, bibtex, FirstYear(val))
                       ELSE rest
                  ELSE Put(rest, bibtex, val)
         ELSE Pop(fs, biblatex)

\* src 470-477
TypeAlias(t) ==
    LET l == Lower(t)
    IN  CASE l = T_conference -> T_inproceedings
          [] l = T_online -> T_misc
          [] l = T_report -> T_techreport
          [] OTHER -> l

\* doi_url_pattern.search(url): r"https?://(?:dx\.)?doi\.org/(10\..+)", ignoring
\* case; the capture of the leftmost match, or None
DoiUrlPrefixes == {P_HTTPS_DOI, P_HTTP_DOI, P_HTTPS_DX_DOI, P_HTTP_DX_DOI}

DoiUrlMatchAt(url, i) ==
    \E p \in DoiUrlPrefixes :
        /\ Slice(Lower(url), i, i + Len(p) - 1) = p
        /\ Slice(url, i + Len(p), i + Len(p) + 2) = P_TEN_DOT
        /\ Len(url) >= i + Len(p) + 3

DoiUrlCapture(url) ==
    LET After(i, p) == SubSeq(url, i + Len(p), Len(url))
        At(i) == After(i, CHOOSE q \in DoiUrlPrefixes :
                              Slice(Lower(url), i, i + Len(q) - 1) = q)
        Leftmost(hits) ==
            IF hits = {} THEN None
            ELSE At(CHOOSE j \in hits : \A k \in hits : j <= k)
    IN  Leftmost({i \in 1..Len(url) : DoiUrlMatchAt(url, i)})

\* ARXIV_DOI_PATTERN.search(doi): r"10\.48550/ARXIV\.(\d{4}\.\d{4,5})", ignoring
\* case; the capture of the leftmost match, or None
ArxivDoiMatchAt(doi, i) ==
    LET IdAt(j) ==
            /\ Slice(Lower(doi), i, j - 1) = P_ARXIV_DOI
            /\ Len(doi) >= j + 8
            /\ IsDigits(SubSeq(doi, j, j + 3))
            /\ doi[j + 4] = "."
            /\ IsDigits(SubSeq(doi, j + 5, j + 8))
    IN  IdAt(i + Len(P_ARXIV_DOI))

ArxivDoiCapture(doi) ==
    LET IdFrom(j) ==
            SubSeq(doi, j, IF Len(doi) >= j + 9 /\ doi[j + 9] \in Digits
                           THEN j + 9 ELSE j + 8)
        Leftmost(hits) ==
            IF hits = {} THEN None
            ELSE IdFrom((CHOOSE k \in hits : \A m \in hits : k <= m) + Len(P_ARXIV_DOI))
    IN  Leftmost({i \in 1..Len(doi) : ArxivDoiMatchAt(doi, i)})

\* src 499-511: strip one leading prefix, then whitespace, then trailing . and ,
CleanDoi(doi) ==
    LET Cut(low) == IF StartsWith(low, P_HTTPS_DOI) THEN SubSeq(doi, 17, Len(doi))
                    ELSE IF StartsWith(low, P_HTTP_DOI) THEN SubSeq(doi, 16, Len(doi))
                    ELSE IF StartsWith(low, P_DOI_COLON) THEN SubSeq(doi, 5, Len(doi))
                    ELSE doi
    IN  RStripChars(Strip(Cut(Lower(doi))), {".", ","})

\* src 479-517: DOI and URL normalization; the fields and the doi local variable
NormalizeDoiUrl(fs) ==
    LET Dropped(fs2, doi2, url1) ==
            [fields |-> IF doi2 # <<>> /\ url1 # <<>> /\ DoiUrlCapture(url1) = doi2
                        THEN Pop(fs2, "url") ELSE fs2,
             doi |-> doi2]
        Cleaned(fs1, doi1, url1, doi2) ==
            Dropped(IF doi1 # <<>> THEN Put(fs1, "doi", doi2) ELSE fs1, doi2, url1)
        Lifted(fs1, doi1, url1) ==
            Cleaned(fs1, doi1, url1, IF doi1 # <<>> THEN CleanDoi(doi1) ELSE doi1)
        Captured(doi0, url0, capture, lift) ==
            Lifted(IF lift THEN Pop(Put(fs, "doi", capture), "url") ELSE fs,
                   IF lift THEN capture ELSE doi0,
                   IF lift THEN <<>> ELSE url0)
        Stripped(doi0, url0, capture) ==
            Captured(doi0, url0, capture, doi0 = <<>> /\ url0 # <<>> /\ capture # None)
        Read(doi0, url0) == Stripped(doi0, url0, DoiUrlCapture(url0))
    IN  Read(Strip(Get(fs, "doi", <<>>)), Strip(Get(fs, "url", <<>>)))

\* the promotion with the booktitle rule and the DOI rule applied to every type
PromoteTypeAnyType(entry_type, fs, doi) ==
    IF /\ Contains(Lower(Get(fs, "title", <<>>)), P_PROCEEDINGS)
       /\ "editor" \in DOMAIN fs
       /\ "author" \notin DOMAIN fs
    THEN T_proceedings
    ELSE IF "booktitle" \in DOMAIN fs THEN T_inproceedings
    ELSE IF doi # <<>> /\ ArxivDoiCapture(doi) = None
         THEN IF "journal" \in DOMAIN fs THEN T_article
              ELSE IF ~Contains(doi, P_ZENODO_PREFIX) THEN T_inproceedings
              ELSE entry_type
         ELSE entry_type

\* src 519-549: type promotion
PromoteType(entry_type, fs, doi) ==
    IF /\ Contains(Lower(Get(fs, "title", <<>>)), P_PROCEEDINGS)
       /\ "editor" \in DOMAIN fs
       /\ "author" \notin DOMAIN fs
    THEN T_proceedings
    ELSE IF entry_type = T_misc
    THEN IF "booktitle" \in DOMAIN fs THEN T_inproceedings
         ELSE IF doi # <<>> /\ ArxivDoiCapture(doi) = None
              THEN IF "journal" \in DOMAIN fs THEN T_article
                   ELSE IF ~Contains(doi, P_ZENODO_PREFIX) THEN T_inproceedings
                   ELSE entry_type
              ELSE entry_type
    ELSE entry_type

normalize_entry(entry) ==
    LET Promoted(entry_type, ids) ==
            BibEntry(PromoteType(entry_type, ids.fields, ids.doi), entry.citekey,
                     ids.fields)
    IN  Promoted(TypeAlias(entry.entry_type),
                 NormalizeDoiUrl(ApplyMapping(ApplyMapping(ApplyMapping(entry.fields,
                     "journaltitle", "journal"), "date", "year"),
                     "location", "address")))

(***************************************************************************)
(* The Field Comparator (compare_fields)                                   *)
(***************************************************************************)

CR_journal_article == <<"j", "o", "u", "r", "n", "a", "l", "-", "a", "r", "t", "i", "c", "l", "e">>
CR_proceedings_article == <<"p", "r", "o", "c", "e", "e", "d", "i", "n", "g", "s", "-", "a", "r", "t", "i", "c", "l", "e">>
CR_book_chapter == <<"b", "o", "o", "k", "-", "c", "h", "a", "p", "t", "e", "r">>
CR_dissertation == <<"d", "i", "s", "s", "e", "r", "t", "a", "t", "i", "o", "n">>
CR_monograph == <<"m", "o", "n", "o", "g", "r", "a", "p", "h">>
CR_reference_entry == <<"r", "e", "f", "e", "r", "e", "n", "c", "e", "-", "e", "n", "t", "r", "y">>
CR_posted_content == <<"p", "o", "s", "t", "e", "d", "-", "c", "o", "n", "t", "e", "n", "t">>
OA_preprint == <<"p", "r", "e", "p", "r", "i", "n", "t">>
V_arxiv == <<"a", "r", "x", "i", "v">>
V_emptylist == <<"[", "]">>

Sources ==
    {"crossref", "arxiv", "zenodo", "dblp", "datacite", "pubmed",
     "semantic_scholar", "openalex"}

\* src 553-560: strip, then drop a leading "doi:" and the whitespace after it
normalize_doi(doi) ==
    IF doi = <<>> THEN <<>>
    ELSE LET d == Strip(doi)
         IN  IF StartsWith(Lower(d), P_DOI_COLON)
             THEN LStrip(SubSeq(d, 5, Len(d)))
             ELSE d

\* src 1717-1768
map_api_type_to_bibtex(api_type, source) ==
    IF api_type = <<>> THEN T_misc
    ELSE LET Mapped(a) ==
             CASE source = "crossref" ->
                   (CASE a = CR_journal_article -> T_article
                      [] a = CR_proceedings_article -> T_inproceedings
                      [] a = T_book -> T_book
                      [] a = CR_book_chapter -> T_incollection
                      [] a = CR_dissertation -> T_phdthesis
                      [] a = CR_monograph -> T_book
                      [] a = T_report -> T_techreport
                      [] a = CR_reference_entry -> T_incollection
                      [] a = CR_posted_content -> T_misc
                      [] OTHER -> T_misc)
               [] source = "openalex" ->
                   (CASE a = T_article -> T_article
                      [] a = CR_book_chapter -> T_incollection
                      [] a = T_book -> T_book
                      [] a = CR_dissertation -> T_phdthesis
                      [] a = OA_preprint -> T_misc
                      [] a = T_report -> T_techreport
                      [] OTHER -> T_misc)
               [] source = "arxiv" -> T_article
               [] source = "dblp" ->
                   (CASE a = T_article -> T_article
                      [] a = T_inproceedings -> T_inproceedings
                      [] a = T_book -> T_book
                      [] a = T_incollection -> T_incollection
                      [] a = T_phdthesis -> T_phdthesis
                      [] a = T_mastersthesis -> T_mastersthesis
                      [] a = T_proceedings -> T_proceedings
                      [] OTHER -> T_misc)
               [] OTHER -> T_misc
         IN  Mapped(Strip(Lower(api_type)))

\* src 1700-1715: Jaccard similarity of the two character sets, as the
\* pair <<numerator, denominator>> of the ratio the code returns
calculate_similarity(str1, str2) ==
    IF str1 = <<>> \/ str2 = <<>> THEN <<0, 1>>
    ELSE IF str1 = str2 THEN <<1, 1>>
    ELSE LET set1 == CharSet(Lower(str1))
             set2 == CharSet(Lower(str2))
         IN  <<Cardinality(set1 \cap set2), Cardinality(set1 \cup set2)>>

\* similarity > 0.7
SimilarityAbove(sim) == 10 * sim[1] > 7 * sim[2]

\* the field-mapping tables: canonical field -> the source's own key.  The
\* author rows (lists of names) are outside the value pools of this model.
CrossrefFieldMapping ==
    ("title" :> "title") @@ ("journal" :> "container-title") @@
    ("year" :> "published-print") @@ ("volume" :> "volume") @@
    ("pages" :> "page") @@ ("doi" :> "DOI") @@ ("issn" :> "ISSN") @@
    ("entrytype" :> "type")

OtherFieldMapping ==
    ("title" :> "title") @@ ("journal" :> "journal") @@ ("year" :> "year") @@
    ("doi" :> "doi") @@ ("publisher" :> "publisher") @@ ("volume" :> "volume") @@
    ("number" :> "number") @@ ("pages" :> "pages") @@ ("entrytype" :> "type")

MappedSources == {"semantic_scholar", "dblp", "pubmed", "datacite", "openalex"}

ArxivFields == {"entrytype", "title", "year", "booktitle", "doi", "eprint", "eprinttype"}

\* src 1401-1429, 1438-1461: the Crossref transformer of one field; None when
\* the field is skipped.  A list value is held as its first element, and
\* published-print as the year of its date-parts (empty when it has none).
CrossrefTransform(bib_field, x) ==
    CASE bib_field \in {"title", "journal"} -> Strip(x)
      [] bib_field = "year" -> IF x = <<>> THEN None ELSE x
      [] bib_field \in {"volume", "pages", "issn"} ->
            IF x = <<>> THEN None ELSE Strip(x)
      [] bib_field = "doi" -> IF x = <<>> THEN None ELSE Lower(Strip(x))
      [] bib_field = "entrytype" -> map_api_type_to_bibtex(x, "crossref")

\* src 1602-1639, 1647-1657: the transformer of the other mapped sources
OtherTransform(bib_field, x, source) ==
    CASE bib_field \in {"title", "journal"} -> IF x = <<>> THEN None ELSE Strip(x)
      [] bib_field = "year" -> IF x = <<>> THEN None ELSE x
      [] bib_field = "doi" -> IF x = <<>> THEN None ELSE Lower(x)
      [] bib_field \in {"publisher", "volume", "number", "pages"} ->
            IF x = <<>> THEN None ELSE Strip(x)
      [] bib_field = "entrytype" ->
            IF source \in {"dblp", "openalex"}
            THEN map_api_type_to_bibtex(x, source)
            ELSE T_misc

Skip == [cls |-> "skip", val |-> <<>>]
Class(cls, val) == [cls |-> cls, val |-> val]

\* src 1463-1495 (Crossref) and 1659-1690 (the other mapped sources): the
\* classification of one field from the local value and the API value
ClassifyMapped(bib_entry, bib_field, api_value, source) ==
    LET Classified(bib_value, api_value_str, bib_normalized, api_normalized) ==
            IF bib_value = <<>>
            THEN IF api_value_str # <<>> /\ api_value_str # V_emptylist
                 THEN Class("updated", api_value_str)
                 ELSE Skip
            ELSE IF bib_normalized = api_normalized
            THEN Class("identical", bib_value)
            ELSE IF bib_field # "pages"
            THEN IF Len(bib_value) > 3 /\ Len(api_value_str) > 3
                 THEN IF bib_field \in {"author", "title"}
                      THEN Class("updated", api_value_str)
                      ELSE IF source = "crossref"
                      THEN Class("conflicts", <<bib_value, api_value_str>>)
                      ELSE IF SimilarityAbove(
                                 calculate_similarity(bib_normalized, api_normalized))
                      THEN Class("different", <<bib_value, api_value_str>>)
                      ELSE Class("conflicts", <<bib_value, api_value_str>>)
                 ELSE Skip
            ELSE Skip
        Stripped(bib_value, api_value_str) ==
            Classified(bib_value, api_value_str,
                       normalize_string_for_comparison(bib_value, bib_field),
                       normalize_string_for_comparison(api_value_str, bib_field))
    IN  Stripped(Strip(Get(bib_entry, bib_field, <<>>)), Strip(api_value))

\* src 1432-1461 and 1641-1657: one row of a mapping table
CompareMapped(bib_entry, api_data, source, bib_field) ==
    LET mapping == IF source = "crossref" THEN CrossrefFieldMapping
                   ELSE OtherFieldMapping
        api_field == mapping[bib_field]
        Transformed(api_value) ==
            IF api_value = None \/ Strip(api_value) = <<>> THEN Skip
            ELSE ClassifyMapped(bib_entry, bib_field, api_value, source)
    IN  IF api_field \notin DOMAIN api_data THEN Skip
        ELSE Transformed(IF source = "crossref"
                         THEN CrossrefTransform(bib_field, api_data[api_field])
                         ELSE OtherTransform(bib_field, api_data[api_field], source))

Truthy(d, k) == k \in DOMAIN d /\ d[k] # <<>>

\* src 1497-1598: the arXiv branch, field by field
CompareArxiv(bib_entry, api_data, bib_field) ==
    LET is_published == Truthy(api_data, "journal") \/ Truthy(api_data, "doi")
        api_type == IF is_published THEN T_inproceedings ELSE T_misc
    IN  CASE bib_field = "entrytype" ->
              LET bib_type == Strip(Get(bib_entry, "ENTRYTYPE", T_misc))
              IN  IF normalize_string_for_comparison(bib_type, "entrytype") # api_type
                  THEN Class("updated", api_type)
                  ELSE Class("identical", bib_type)
          [] bib_field = "title" ->
              IF "title" \notin DOMAIN api_data THEN Skip
              ELSE LET bib_value == Strip(Get(bib_entry, "title", <<>>))
                       api_value == api_data["title"]
                   IN  IF bib_value = <<>> THEN Class("updated", api_value)
                       ELSE IF normalize_string_for_comparison(bib_value, "title")
                               = normalize_string_for_comparison(api_value, "title")
                       THEN Class("identical", bib_value)
                       ELSE IF Len(bib_value) > 3 THEN Class("updated", api_value)
                       ELSE Skip
          [] bib_field = "year" ->
              IF "year" \notin DOMAIN api_data THEN Skip
              ELSE LET bib_value == Strip(Get(bib_entry, "year", <<>>))
                       api_value == api_data["year"]
                   IN  IF bib_value = <<>> THEN Class("updated", api_value)
                       ELSE IF bib_value = api_value THEN Class("identical", bib_value)
                       ELSE Class("conflicts", <<bib_value, api_value>>)
          [] bib_field = "booktitle" ->
              \* target_field is booktitle whenever is_published holds
              IF ~("journal" \in DOMAIN api_data /\ is_published) THEN Skip
              ELSE LET bib_value == Strip(Get(bib_entry, "booktitle", <<>>))
                       api_value == api_data["journal"]
                   IN  IF bib_value = <<>> THEN Class("updated", api_value)
                       ELSE IF bib_value # api_value
                       THEN Class("conflicts", <<bib_value, api_value>>)
                       ELSE Skip
          [] bib_field = "doi" ->
              IF "doi" \notin DOMAIN api_data THEN Skip
              ELSE LET bib_value == Strip(Get(bib_entry, "doi", <<>>))
                       api_value == normalize_doi(api_data["doi"])
                   IN  IF bib_value = <<>> THEN Class("updated", api_value)
                       ELSE IF Lower(bib_value) # Lower(api_value)
                       THEN Class("updated", api_value)
                       ELSE Skip
          [] bib_field = "eprint" ->
              IF "arxiv_id" \in DOMAIN api_data /\ Get(bib_entry, "eprint", <<>>) = <<>>
              THEN Class("updated", api_data["arxiv_id"])
              ELSE Skip
          [] bib_field = "eprinttype" ->
              IF "arxiv_id" \in DOMAIN api_data
                 /\ Get(bib_entry, "eprinttype", <<>>) = <<>>
              THEN Class("updated", V_arxiv)
              ELSE Skip

\* the fields a source's branch of compare_fields can classify; every other
\* source (zenodo) has no branch and yields four empty maps
ComparedFields(source) ==
    CASE source = "crossref" -> DOMAIN CrossrefFieldMapping
      [] source = "arxiv" -> ArxivFields
      [] source \in MappedSources -> DOMAIN OtherFieldMapping
      [] OTHER -> {}

CompareField(bib_entry, api_data, source, bib_field) ==
    IF source = "arxiv" THEN CompareArxiv(bib_entry, api_data, bib_field)
    ELSE CompareMapped(bib_entry, api_data, source, bib_field)

\* src 1384-1698: the four maps compare_fields returns (its fifth, "sources",
\* is read by no caller)
compare_fields(bib_entry, api_data, source) ==
    LET MapsOf(cls) ==
            LET MapOf(c) == [f \in {g \in DOMAIN cls : cls[g].cls = c} |-> cls[f].val]
            IN  [updated |-> MapOf("updated"), conflicts |-> MapOf("conflicts"),
                 identical |-> MapOf("identical"), different |-> MapOf("different")]
    IN  MapsOf([f \in ComparedFields(source) |->
                   CompareField(bib_entry, api_data, source, f)])

(***************************************************************************)
(* The Enrichment Orchestrator and the Priority Merger (validate_entry)    *)
(***************************************************************************)

\* an insertion-ordered dict (the order in which Python filled it): a
\* sequence of <<key, value>> pairs with distinct keys
ODKeys(od) == {od[i][1] : i \in 1..Len(od)}
ODGet(od, k) == LET i == CHOOSE j \in 1..Len(od) : od[j][1] = k IN od[i][2]
ODPut(od, k, v) ==
    IF k \in ODKeys(od)
    THEN [i \in 1..Len(od) |-> IF od[i][1] = k THEN <<k, v>> ELSE od[i]]
    ELSE Append(od, <<k, v>>)

Range(s) == {s[i] : i \in 1..Len(s)}

RECURSIVE FilterSeq(_, _)
FilterSeq(s, keep) ==
    IF s = <<>> THEN <<>>
    ELSE IF Head(s) \in keep THEN <<Head(s)>> \o FilterSeq(Tail(s), keep)
         ELSE FilterSeq(Tail(s), keep)

\* \d{4}\.\d{4,5} at position j of s: the identifier, or None
ArxivIdAt(s, j) ==
    IF /\ Len(s) >= j + 8
       /\ IsDigits(SubSeq(s, j, j + 3))
       /\ s[j + 4] = "."
       /\ IsDigits(SubSeq(s, j + 5, j + 8))
    THEN SubSeq(s, j, IF Len(s) >= j + 9 /\ s[j + 9] \in Digits THEN j + 9 ELSE j + 8)
    ELSE None

P_ARXIV_COLON == <<"a", "r", "x", "i", "v", ":">>

RECURSIVE SkipSpaces(_, _)
SkipSpaces(s, j) == IF j <= Len(s) /\ IsSpace(s[j]) THEN SkipSpaces(s, j + 1) ELSE j

\* ARXIV_NOTE_PATTERN.search(note), the version suffix removed
ArxivNoteCapture(note) ==
    LET at(i) == ArxivIdAt(note, SkipSpaces(note, i + 6))
        Leftmost(hits) ==
            IF hits = {} THEN None
            ELSE at(CHOOSE i \in hits : \A k \in hits : i <= k)
    IN  Leftmost({i \in 1..Len(note) :
                     Slice(Lower(note), i, i + 5) = P_ARXIV_COLON /\ at(i) # None})

\* src 672-708
extract_arxiv_id(entry) ==
    LET FirstOf(in_note, in_doi, in_eprint) ==
            IF in_note # None THEN in_note
            ELSE IF in_doi # None THEN in_doi
            ELSE in_eprint
    IN  FirstOf(ArxivNoteCapture(Get(entry, "note", <<>>)),
                ArxivDoiCapture(Get(entry, "doi", <<>>)),
                ArxivIdAt(Get(entry, "eprint", <<>>), 1))

\* src 1818-1863: the sources _fetch_concurrently submits, in submission order
FirstRoundPlan(doi, arxiv_id, title) ==
    LET Planned(by_doi, by_title) ==
            (IF by_doi THEN {"crossref", "datacite"} ELSE {})
            \cup (IF by_doi /\ Contains(Lower(doi), P_ZENODO) THEN {"zenodo"} ELSE {})
            \cup (IF arxiv_id # None THEN {"arxiv"} ELSE {})
            \cup (IF by_title THEN {"dblp", "semantic_scholar"} ELSE {})
            \cup (IF doi # <<>> \/ by_title THEN {"openalex"} ELSE {})
    IN  FilterSeq(<<"crossref", "zenodo", "datacite", "arxiv", "dblp",
                    "semantic_scholar", "openalex">>,
                  Planned(doi # <<>> /\ ArxivDoiCapture(doi) = None,
                          title # <<>> /\ Len(title) > 10))

\* what the registries hold for the paper: a record for each source that has
\* one.  An adapter returns its registry's record, whatever key it was queried
\* by, and nothing when the registry has none.
Answers(world, source) == source \in DOMAIN world

RECURSIVE CollectAnswers(_, _)
CollectAnswers(plan, world) ==
    IF plan = <<>> THEN <<>>
    ELSE IF Answers(world, Head(plan))
         THEN <<<<Head(plan), world[Head(plan)]>>>> \o CollectAnswers(Tail(plan), world)
         ELSE CollectAnswers(Tail(plan), world)

\* fetch one more source and store its record, if it has one
FetchInto(fetched, source, world) ==
    IF Answers(world, source) THEN ODPut(fetched, source, world[source]) ELSE fetched

\* src 2060-2066: the first of the sources, in this order, holding a DOI
RECURSIVE DiscoverDoi(_, _)
DiscoverDoi(order, fetched) ==
    IF order = <<>> THEN None
    ELSE IF Head(order) \in ODKeys(fetched) /\ Truthy(ODGet(fetched, Head(order)), "doi")
         THEN normalize_doi(ODGet(fetched, Head(order))["doi"])
         ELSE DiscoverDoi(Tail(order), fetched)

\* src 2114-2136: the first of the sources holding an arXiv identifier (the
\* eprint and url forms are outside the record pools of this model)
RECURSIVE DiscoverArxiv(_, _)
DiscoverArxiv(order, fetched) ==
    IF order = <<>> THEN None
    ELSE IF Head(order) \in ODKeys(fetched)
            /\ ( Truthy(ODGet(fetched, Head(order)), "arxiv_id")
                 \/ Truthy(ODGet(fetched, Head(order)), "arxivid") )
         THEN LET data == ODGet(fetched, Head(order))
              IN  IF Truthy(data, "arxiv_id") THEN data["arxiv_id"] ELSE data["arxivid"]
         ELSE DiscoverArxiv(Tail(order), fetched)

\* src 2054-2107: the recursive round for a discovered DOI
RecursiveDoiRound(doi, fetched, world) ==
    LET WithOpenAlex(f3) ==
            IF "openalex" \notin ODKeys(f3)
            THEN FetchInto(f3, "openalex", world) ELSE f3
        WithDatacite(f2) ==
            WithOpenAlex(IF /\ "crossref" \notin ODKeys(fetched)
                            /\ {"crossref", "zenodo", "datacite"} \cap ODKeys(f2) = {}
                         THEN FetchInto(f2, "datacite", world) ELSE f2)
        WithZenodo(f1, new_doi) ==
            WithDatacite(IF /\ "crossref" \notin ODKeys(fetched)
                            /\ Contains(Lower(new_doi), P_ZENODO)
                            /\ "zenodo" \notin ODKeys(f1)
                         THEN FetchInto(f1, "zenodo", world) ELSE f1)
        Discovered(new_doi) ==
            IF new_doi = None \/ new_doi = <<>> THEN fetched
            ELSE WithZenodo(IF "crossref" \notin ODKeys(fetched)
                            THEN FetchInto(fetched, "crossref", world) ELSE fetched,
                            new_doi)
    IN  Discovered(IF doi = <<>>
                   THEN DiscoverDoi(<<"dblp", "semantic_scholar", "openalex", "pubmed">>,
                                    fetched)
                   ELSE None)

\* src 2110-2150: the recursive round for a discovered arXiv identifier
RecursiveArxivRound(arxiv_id, fetched, world) ==
    LET new_arxiv_id ==
            IF arxiv_id = None
            THEN DiscoverArxiv(<<"dblp", "semantic_scholar", "openalex", "crossref">>,
                               fetched)
            ELSE None
    IN  IF new_arxiv_id # None /\ "arxiv" \notin ODKeys(fetched)
        THEN FetchInto(fetched, "arxiv", world) ELSE fetched

\* src 1953-1968: the first-round plan of the canonical fields
PlanOf(val_fields) ==
    LET doi == Get(val_fields, "doi", <<>>)
        c_doi == IF doi # <<>> /\ ArxivDoiCapture(doi) = None THEN doi ELSE <<>>
    IN  FirstRoundPlan(c_doi, extract_arxiv_id(val_fields), Get(val_fields, "title", <<>>))

\* src 1969-2150: what validate_entry adds to the records of the first round,
\* concurrent_results, in the order they arrived in
FetchRest(val_fields, first_round, world) ==
    LET doi == Get(val_fields, "doi", <<>>)
        arxiv_id == extract_arxiv_id(val_fields)
        pmid == IF Get(val_fields, "pmid", <<>>) # <<>> THEN val_fields["pmid"]
                ELSE Get(val_fields, "pubmed", <<>>)
        withPubmed == IF pmid # <<>> THEN FetchInto(first_round, "pubmed", world)
                      ELSE first_round
    IN  RecursiveArxivRound(arxiv_id, RecursiveDoiRound(doi, withPubmed, world), world)

\* src 1930-2150: every record validate_entry fetches for the canonical
\* fields, when the first round completes in submission order
FetchAll(val_fields, world) ==
    FetchRest(val_fields, CollectAnswers(PlanOf(val_fields), world), world)

\* src 2154-2163
priority_order ==
    <<"crossref", "arxiv", "zenodo", "dblp", "datacite", "pubmed",
      "semantic_scholar", "openalex">>

EmptyMerge ==
    [fields_updated |-> EmptyDict, fields_conflict |-> EmptyDict,
     fields_identical |-> EmptyDict, fields_different |-> EmptyDict,
     field_sources |-> EmptyDict, field_source_options |-> EmptyDict,
     field_values_seen |-> EmptyDict]

\* a variant of IsNewValue that takes every value for a new one
AlwaysNew(seen, norm_val) == TRUE

\* src 2222: `if norm_val not in field_values_seen[field_name]`
IsNewValue(seen, norm_val) == norm_val \notin Range(seen)

\* a variant of Unclaimed under which every later source takes the field over
AlwaysUnclaimed(field_sources, field_name) == TRUE

\* src 2227-2229: `if field_name not in result.field_sources`
Unclaimed(field_sources, field_name) == field_name \notin DOMAIN field_sources

\* src 2182-2258: the merge of one source's comparison.  The fields of one
\* comparison are merged independently of each other, so the loop over the
\* sorted involved fields is taken in one step.
MergeSource(acc, source, comparison) ==
    LET involved == DOMAIN comparison.updated \cup DOMAIN comparison.conflicts
                    \cup DOMAIN comparison.identical \cup DOMAIN comparison.different
        api_val_str(f) ==
            IF f \in DOMAIN comparison.updated THEN comparison.updated[f]
            ELSE IF f \in DOMAIN comparison.conflicts THEN comparison.conflicts[f][2]
            ELSE IF f \in DOMAIN comparison.different THEN comparison.different[f][2]
            ELSE comparison.identical[f]
        norm_val(f) == normalize_string_for_comparison(api_val_str(f), f)
        isNew(f) == IsNewValue(Get(acc.field_values_seen, f, <<>>), norm_val(f))
        claims(f) == f \in involved /\ Unclaimed(acc.field_sources, f)
        Take(old, new) ==
            [f \in DOMAIN old \cup {g \in DOMAIN new : claims(g)} |->
                IF f \in DOMAIN new /\ claims(f) THEN new[f] ELSE old[f]]
    IN  [fields_updated |-> Take(acc.fields_updated, comparison.updated),
         fields_conflict |->
             Take(acc.fields_conflict,
                  [f \in DOMAIN comparison.conflicts \ DOMAIN comparison.updated |->
                      comparison.conflicts[f]]),
         fields_different |->
             Take(acc.fields_different,
                  [f \in DOMAIN comparison.different
                         \ (DOMAIN comparison.updated \cup DOMAIN comparison.conflicts) |->
                      comparison.different[f]]),
         fields_identical |->
             Take(acc.fields_identical,
                  [f \in DOMAIN comparison.identical
                         \ (DOMAIN comparison.updated \cup DOMAIN comparison.conflicts
                            \cup DOMAIN comparison.different) |->
                      comparison.identical[f]]),
         field_sources |->
             [f \in DOMAIN acc.field_sources \cup involved |->
                 IF claims(f) THEN source ELSE acc.field_sources[f]],
         field_source_options |->
             [f \in DOMAIN acc.field_source_options \cup involved |->
                 IF f \in involved /\ isNew(f)
                 THEN Append(Get(acc.field_source_options, f, <<>>), source)
                 ELSE acc.field_source_options[f]],
         field_values_seen |->
             [f \in DOMAIN acc.field_values_seen \cup involved |->
                 IF f \in involved /\ isNew(f)
                 THEN Append(Get(acc.field_values_seen, f, <<>>), norm_val(f))
                 ELSE acc.field_values_seen[f]]]

\* src 2171-2176: the sources are visited in the order given, and those
\* that returned nothing are passed over
RECURSIVE MergeInOrder(_, _, _, _)
MergeInOrder(acc, order, entry, fetched_data) ==
    IF order = <<>> THEN acc
    ELSE LET source == Head(order)
         IN  IF source \notin ODKeys(fetched_data)
             THEN MergeInOrder(acc, Tail(order), entry, fetched_data)
             ELSE MergeInOrder(
                      MergeSource(acc, source,
                                  compare_fields(entry, ODGet(fetched_data, source), source)),
                      Tail(order), entry, fetched_data)

\* the sources of an insertion-ordered dict, in insertion order
ODKeySeq(od) == [i \in 1..Len(od) |-> od[i][1]]

\* a variant of PriorityMerge that visits the sources in the order their
\* records arrived in
ArrivalMerge(entry, fetched_data) ==
    MergeInOrder(EmptyMerge, ODKeySeq(fetched_data), entry, fetched_data)

\* src 2152-2258: the priority merge of everything fetched for one entry
PriorityMerge(entry, fetched_data) ==
    MergeInOrder(EmptyMerge, priority_order, entry, fetched_data)

\* src 1914-1920: the values the entry holds when it is validated
OriginalValues(entry) ==
    LET kept == {k \in DOMAIN entry : k # "ID" /\ entry[k] # <<>>}
    IN  [k \in kept \cup (IF "ENTRYTYPE" \in DOMAIN entry THEN {"entrytype"} ELSE {}) |->
            IF k = "entrytype" /\ "ENTRYTYPE" \in DOMAIN entry
            THEN entry["ENTRYTYPE"] ELSE entry[k]]

\* src 1885-1907: the canonical fields validate_entry works on
ValFields(entry) ==
    LET Canonical(normalized_entry) ==
            Put(Put(normalized_entry.fields, "ID", normalized_entry.citekey),
                "ENTRYTYPE", normalized_entry.entry_type)
    IN  Canonical(normalize_entry(
            BibEntry(Get(entry, "ENTRYTYPE", T_misc), Get(entry, "ID", <<>>),
                     [k \in DOMAIN entry \ {"ID", "ENTRYTYPE"} |-> entry[k]])))

\* src 2152-2294: the ValidationResult built from everything fetched
ResultOf(entry, val_fields, fetched_data) ==
    LET Result(merged) ==
            [entry_key |-> val_fields["ID"],
             entry_type |-> val_fields["ENTRYTYPE"],
             fields_updated |-> merged.fields_updated,
             fields_conflict |-> merged.fields_conflict,
             fields_identical |-> merged.fields_identical,
             fields_different |-> merged.fields_different,
             field_sources |-> merged.field_sources,
             field_source_options |-> merged.field_source_options,
             all_sources_data |-> fetched_data,
             original_values |-> OriginalValues(entry)]
    IN  Result(PriorityMerge(entry, fetched_data))

\* src 1878-2294: the ValidationResult of one entry of the store
validate_entry(entry, world) ==
    LET Validated(val_fields) ==
            ResultOf(entry, val_fields, FetchAll(val_fields, world))
    IN  Validated(ValFields(entry))

(***************************************************************************)
(* SpecNorm: normalize_string_for_comparison applied twice to one string   *)
(***************************************************************************)

MaxChunks == 3

NormChunks ==
    { <<"&">>, <<"a", "m", "p", ";">>, <<"l", "t", ";">>, <<"\\">>, <<"{">>,
      <<" ">>, <<"-">>, <<",">>, <<"N">> }

RECURSIVE ChunkStrings(_)
ChunkStrings(n) ==
    IF n = 0 THEN {<<>>}
    ELSE LET shorter == ChunkStrings(n - 1)
         IN  shorter \cup {c \o s : c \in NormChunks, s \in shorter}

NormFields == {"title", "issn", "doi", "author", "journal", "year", "entrytype"}

\* the variables of the parts a specification leaves out stay as they are here
FnIdle == fnArg = None /\ fnField = None /\ fnOut = None /\ fnOut2 = None /\ fnStep = 0
SessionIdle ==
    /\ db = <<>> /\ results = <<>> /\ registries = <<>> /\ loaded = <<>>
    /\ lastOp = None /\ served = 0

FetchIdle == phase = "idle" /\ futures = {} /\ concurrent_results = <<>>
PoolIdle ==
    update_bib = FALSE /\ started = 0 /\ running = {} /\ completion_order = <<>>
RateIdle == now = 0 /\ threads = <<>> /\ arxiv_lock = 0 /\ request_log = <<>>

InitNorm ==
    /\ SessionIdle
    /\ FetchIdle
    /\ PoolIdle
    /\ RateIdle
    /\ fnArg \in ChunkStrings(MaxChunks)
    /\ fnField \in NormFields
    /\ fnOut = None
    /\ fnOut2 = None
    /\ fnStep = 0

NormalizeOnce ==
    /\ fnStep = 0
    /\ fnOut' = normalize_string_for_comparison(fnArg, fnField)
    /\ fnStep' = 1
    /\ UNCHANGED <<fnArg, fnField, fnOut2>>
    /\ UNCHANGED notFn

NormalizeAgain ==
    /\ fnStep = 1
    /\ fnOut2' = normalize_string_for_comparison(fnOut, fnField)
    /\ fnStep' = 2
    /\ UNCHANGED <<fnArg, fnField, fnOut>>
    /\ UNCHANGED notFn

NextNorm == NormalizeOnce \/ NormalizeAgain

SpecNorm == InitNorm /\ [][NextNorm]_vars

\* C5: normalize_string_for_comparison is idempotent: normalizing its own
\* output again, for the same field, returns that output unchanged.
C5_NormalizeIdempotent == fnStep = 2 => fnOut2 = fnOut

(***************************************************************************)
(* SpecEntry: normalize_entry applied twice to one raw entry               *)
(***************************************************************************)

MaxDoiChunks == 2

V_doi1 == <<"1", "0", ".", "1", "/", "x">>
V_doiZ == <<"1", "0", ".", "5", "2", "8", "1", "/", "z">>
V_url1 == P_HTTPS_DOI \o V_doi1
V_urlOther == <<"h", "t", "t", "p", ":", "/", "/", "a", ".", "b">>

DoiChunks == {P_DOI_COLON, P_HTTPS_DOI, V_doi1, V_doiZ, <<".">>, <<" ">>}

RECURSIVE DoiStrings(_)
DoiStrings(n) ==
    IF n = 0 THEN {<<>>}
    ELSE LET shorter == DoiStrings(n - 1)
         IN  shorter \cup {c \o s : c \in DoiChunks, s \in shorter}

\* the other fields of a raw entry, beside doi and url
RawExtras ==
    { EmptyDict,
      [journal |-> <<"J">>],
      [booktitle |-> <<"B">>],
      [title |-> <<"P", "r", "o", "c", "e", "e", "d", "i", "n", "g", "s">>,
       editor |-> <<"E">>],
      [date |-> <<"M", "a", "y", " ", "2", "0", "1", "6">>],
      [journaltitle |-> <<"J">>, location |-> <<"L">>] }

RawDois == {EmptyDict} \cup {[doi |-> d] : d \in DoiStrings(MaxDoiChunks)}
RawUrls == {EmptyDict, [url |-> V_url1], [url |-> V_url1 \o <<".">>],
            [url |-> V_urlOther]}
RawTypes == {T_misc, T_online, T_article}

InitEntry ==
    /\ SessionIdle
    /\ FetchIdle
    /\ PoolIdle
    /\ RateIdle
    /\ \E t \in RawTypes, d \in RawDois, u \in RawUrls, x \in RawExtras :
           fnArg = BibEntry(t, "k", d @@ u @@ x)
    /\ fnField = None
    /\ fnOut = None
    /\ fnOut2 = None
    /\ fnStep = 0

NormalizeEntryOnce ==
    /\ fnStep = 0
    /\ fnOut' = normalize_entry(fnArg)
    /\ fnStep' = 1
    /\ UNCHANGED <<fnArg, fnField, fnOut2>>
    /\ UNCHANGED notFn

NormalizeEntryAgain ==
    /\ fnStep = 1
    /\ fnOut2' = normalize_entry(fnOut)
    /\ fnStep' = 2
    /\ UNCHANGED <<fnArg, fnField, fnOut>>
    /\ UNCHANGED notFn

NextEntry == NormalizeEntryOnce \/ NormalizeEntryAgain

SpecEntry == InitEntry /\ [][NextEntry]_vars

\* C6: normalize_entry is a fixed point on its own output: normalizing a
\* normalized entry again leaves its entry type and all its fields as they are.
C6_NormalizeEntryFixedPoint ==
    fnStep = 2 => /\ fnOut2.entry_type = fnOut.entry_type
                  /\ fnOut2.fields = fnOut.fields

\* ---------------------------------------------------------------------------
\* Schema and field filter (src 130-318, 388-433, 2514-2555)
\* ---------------------------------------------------------------------------

T_manual == <<"m", "a", "n", "u", "a", "l">>
T_booklet == <<"b", "o", "o", "k", "l", "e", "t">>
T_unpublished == <<"u", "n", "p", "u", "b", "l", "i", "s", "h", "e", "d">>

\* FIELD_SCHEMA["common"]
CommonCore == {"author", "editor", "title", "year", "month", "note", "key", "crossref"}
CommonExtended ==
    {"doi", "url", "urldate", "eprint", "archiveprefix", "primaryclass", "isbn",
     "issn", "language", "keywords", "file"}

COMMON_FIELDS == CommonCore \cup CommonExtended \cup {"ID", "ENTRYTYPE"}

Schema(required, optional, extended, required_any) ==
    [required |-> required, optional |-> optional, extended |-> extended,
     required_any |-> required_any]

BookOptional == {"volume", "number", "series", "address", "edition", "month", "note"}
ProcOptional ==
    {"editor", "volume", "number", "series", "publisher", "organization", "address",
     "month", "note"}
ExtIsbn == {"doi", "url", "urldate", "isbn"}
ExtPlain == {"doi", "url", "urldate"}
ExtEprint == {"doi", "url", "urldate", "eprint", "archiveprefix", "primaryclass"}

SchemaTypes ==
    {T_article, T_book, T_inproceedings, T_proceedings, T_incollection, T_inbook,
     T_techreport, T_manual, T_mastersthesis, T_phdthesis, T_booklet, T_unpublished,
     T_misc}

\* FIELD_SCHEMA["types"]; required_any lists the names of both groups
FIELD_SCHEMA(t) ==
    CASE t = T_article ->
           Schema({"author", "title", "journal", "year"},
                  {"volume", "number", "pages", "month", "note"},
                  {"doi", "url", "urldate", "issn"}, {})
      [] t = T_book ->
           Schema({"title", "publisher", "year"}, BookOptional, ExtIsbn,
                  {"author", "editor"})
      [] t = T_inproceedings ->
           Schema({"author", "title", "booktitle", "year"},
                  ProcOptional \cup {"pages"}, ExtIsbn, {})
      [] t = T_proceedings ->
           Schema({"title", "year"}, ProcOptional, ExtIsbn, {})
      [] t = T_incollection ->
           Schema({"author", "title", "booktitle", "publisher", "year"},
                  BookOptional \cup {"editor", "type", "chapter", "pages"}, ExtIsbn, {})
      [] t = T_inbook ->
           Schema({"title", "publisher", "year"}, BookOptional, ExtIsbn,
                  {"author", "editor", "chapter", "pages"})
      [] t = T_techreport ->
           Schema({"author", "title", "institution", "year"},
                  {"type", "number", "address", "month", "note"}, ExtPlain, {})
      [] t = T_manual ->
           Schema({"title"},
                  {"author", "organization", "address", "edition", "month", "year", "note"},
                  ExtPlain, {})
      [] t \in {T_mastersthesis, T_phdthesis} ->
           Schema({"author", "title", "school", "year"},
                  {"type", "address", "month", "note"}, ExtPlain, {})
      [] t = T_booklet ->
           Schema({"title"},
                  {"author", "howpublished", "address", "month", "year", "note"},
                  ExtPlain, {})
      [] t = T_unpublished ->
           Schema({"author", "title", "note"}, {"month", "year"}, ExtEprint, {})
      [] OTHER ->
           Schema({}, {"author", "title", "howpublished", "month", "year", "note"},
                  ExtEprint, {})

\* the characters of the names that occur in a required_any group
Letters ==
    [author |-> {"a", "u", "t", "h", "o", "r"},
     editor |-> {"e", "d", "i", "t", "o", "r"},
     chapter |-> {"c", "h", "a", "p", "t", "e", "r"},
     pages |-> {"p", "a", "g", "e", "s"}]

\* src 417-433: `for grp in schema["required_any"]: allowed.update(grp)` walks
\* the NAMES of the group, and set.update of a name adds its characters
ALLOWED_FIELDS(t) ==
    LET schema == FIELD_SCHEMA(t)
    IN  schema.required \cup schema.optional \cup schema.extended
        \cup UNION {Letters[grp] : grp \in schema.required_any}
        \cup COMMON_FIELDS

\* k.lower() of a key of an entry dict: the two system keys are upper case
KeyLower(k) ==
    CASE k = "ID" -> "id"
      [] k = "ENTRYTYPE" -> "entrytype"
      [] OTHER -> k

filter_entry_fields(entry) ==
    LET entry_type == Lower(Get(entry, "ENTRYTYPE", T_misc))
        allowed == {KeyLower(k) :
                       k \in (IF entry_type \in SchemaTypes
                              THEN ALLOWED_FIELDS(entry_type)
                              ELSE ALLOWED_FIELDS(T_misc))
                             \cup COMMON_FIELDS \cup {"ID", "ENTRYTYPE"}}
    IN  [k \in {x \in DOMAIN entry : KeyLower(x) \in allowed} |-> entry[k]]

\* save_updated_bib(force=True): every entry is filtered in memory before the
\* file is opened; reorder_fields only changes the order of the keys
save_updated_bib(entries) ==
    [i \in DOMAIN entries |-> filter_entry_fields(entries[i])]

\* ---------------------------------------------------------------------------
\* Review session (src 3932-4018, 4125-4234, 4306-4512)
\* ---------------------------------------------------------------------------

\* next((e for e in entries if e["ID"] == entry_key), None), as a position
EntryIndex(entries, entry_key) ==
    LET hits == {i \in DOMAIN entries : entries[i]["ID"] = entry_key}
    IN  IF hits = {} THEN 0 ELSE CHOOSE i \in hits : \A j \in hits : i <= j

\* next((r for r in results if r.entry_key == entry_key), None), as a position
ResultIndex(rs, entry_key) ==
    LET hits == {i \in DOMAIN rs : rs[i].entry_key = entry_key}
    IN  IF hits = {} THEN 0 ELSE CHOOSE i \in hits : \A j \in hits : i <= j

\* entry[f_name] = value, with the pseudo-field entrytype written to ENTRYTYPE
SetField(entry, f_name, value) ==
    IF f_name = "entrytype" THEN Put(entry, "ENTRYTYPE", value)
    ELSE Put(entry, f_name, value)

\* src 4342-4379: the rejected fields, in the order of the request
RECURSIVE RejectLoop(_, _, _, _)
RejectLoop(entry, result, restored_count, rejected_fields) ==
    IF rejected_fields = <<>>
    THEN [entry |-> entry, restored_count |-> restored_count]
    ELSE
      LET f_name == Head(rejected_fields)
          rest == Tail(rejected_fields)
          original_bibtex_value ==
              IF f_name \in DOMAIN result.fields_conflict
                 /\ Len(result.fields_conflict[f_name]) >= 2
              THEN result.fields_conflict[f_name][1]
              ELSE IF f_name \in DOMAIN result.fields_different
                      /\ Len(result.fields_different[f_name]) >= 2
              THEN result.fields_different[f_name][1]
              ELSE IF f_name \in DOMAIN result.original_values
              THEN result.original_values[f_name]
              ELSE None
          was_missing ==
              /\ ~(f_name \in DOMAIN result.fields_conflict
                   /\ Len(result.fields_conflict[f_name]) >= 2)
              /\ ~(f_name \in DOMAIN result.fields_different
                   /\ Len(result.fields_different[f_name]) >= 2)
              /\ f_name \notin DOMAIN result.original_values
              /\ f_name \in DOMAIN result.fields_updated
      IN  IF was_missing
          THEN RejectLoop(Pop(entry, f_name), result, restored_count + 1, rest)
          ELSE IF original_bibtex_value # None
          THEN RejectLoop(Put(entry, f_name, original_bibtex_value), result,
                          restored_count + 1, rest)
          ELSE RejectLoop(entry, result, restored_count, rest)

\* src 4392-4424: the value of f_name as the selected source gives it, compared
\* against the entry as it is now; None when that source says nothing of it
SelectedValue(entry, result, f_name, selected_source) ==
    LET ValueIn(comparison) ==
            IF f_name \in DOMAIN comparison.updated THEN comparison.updated[f_name]
            ELSE IF f_name \in DOMAIN comparison.conflicts
            THEN comparison.conflicts[f_name][2]
            ELSE IF f_name \in DOMAIN comparison.different
            THEN comparison.different[f_name][2]
            ELSE IF f_name \in DOMAIN comparison.identical
            THEN comparison.identical[f_name]
            ELSE None
    IN  ValueIn(compare_fields(entry, ODGet(result.all_sources_data, selected_source),
                               selected_source))

\* src 4425-4448: the value of f_name as the merged result proposes it
ProposedValue(result, f_name) ==
    IF f_name \in DOMAIN result.fields_updated THEN result.fields_updated[f_name]
    ELSE IF f_name \in DOMAIN result.fields_conflict
            /\ Len(result.fields_conflict[f_name]) >= 2
    THEN result.fields_conflict[f_name][2]
    ELSE IF f_name \in DOMAIN result.fields_different
            /\ Len(result.fields_different[f_name]) >= 2
    THEN result.fields_different[f_name][2]
    ELSE None

\* a variant of DropPending that leaves the accepted field in the pending maps
KeepPending(result, f_name) == result

\* src 4451-4456: an accepted field leaves the three pending maps
DropPending(result, f_name) ==
    [result EXCEPT !.fields_updated = Pop(@, f_name),
                   !.fields_conflict = Pop(@, f_name),
                   !.fields_different = Pop(@, f_name)]


\* src 4386-4456: the accepted fields, in the order of the request
RECURSIVE AcceptLoop(_, _, _, _, _)
AcceptLoop(entry, result, applied_count, accepted_fields, selected_sources) ==
    IF accepted_fields = <<>>
    THEN [entry |-> entry, result |-> result, applied_count |-> applied_count]
    ELSE
      LET f_name == Head(accepted_fields)
          rest == Tail(accepted_fields)
          Apply(value) ==
              IF value # None
              THEN AcceptLoop(SetField(entry, f_name, value), DropPending(result, f_name),
                              applied_count + 1, rest, selected_sources)
              ELSE AcceptLoop(entry, DropPending(result, f_name), applied_count, rest,
                              selected_sources)
      IN  Apply(IF f_name \in DOMAIN selected_sources
                   /\ selected_sources[f_name] \in ODKeys(result.all_sources_data)
                THEN SelectedValue(entry, result, f_name, selected_sources[f_name])
                ELSE ProposedValue(result, f_name))

\* src 3959-3974: what accept-all takes from one result
ChangesToApply(result) ==
    [f_name \in DOMAIN result.fields_updated \cup DOMAIN result.fields_different
                \cup DOMAIN result.fields_conflict |->
        IF f_name \in DOMAIN result.fields_conflict
           /\ Len(result.fields_conflict[f_name]) >= 2
        THEN result.fields_conflict[f_name][2]
        ELSE IF f_name \in DOMAIN result.fields_different
                /\ Len(result.fields_different[f_name]) >= 2
        THEN result.fields_different[f_name][2]
        ELSE result.fields_updated[f_name]]

\* src 3980-3984: the changes written to the entry
ApplyChanges(entry, changes) ==
    LET plain == DOMAIN changes \ {"entrytype"}
        typed == IF "entrytype" \in DOMAIN changes
                 THEN Put(entry, "ENTRYTYPE", changes["entrytype"]) ELSE entry
    IN  [k \in DOMAIN typed \cup plain |-> IF k \in plain THEN changes[k] ELSE typed[k]]

\* a variant of AcceptedResult that marks the fields identical but leaves the
\* three pending maps as they were
AcceptedResultKeepsPending(result, changes) ==
    [result EXCEPT
        !.fields_identical =
            [k \in DOMAIN @ \cup DOMAIN changes |->
                IF k \in DOMAIN changes THEN changes[k] ELSE @[k]]]

\* src 3985-3992: the result after its proposals were taken
AcceptedResult(result, changes) ==
    [result EXCEPT
        !.fields_identical =
            [k \in DOMAIN @ \cup DOMAIN changes |->
                IF k \in DOMAIN changes THEN changes[k] ELSE @[k]],
        !.fields_updated = EmptyDict,
        !.fields_conflict = EmptyDict,
        !.fields_different = EmptyDict]

\* src 3939-3992: the loop over the results; each step reads the store the
\* steps before it wrote
RECURSIVE AcceptAllLoop(_, _, _)
AcceptAllLoop(entries, rs, i) ==
    IF i > Len(rs) THEN [entries |-> entries, results |-> rs]
    ELSE
      LET result == rs[i]
          changes == ChangesToApply(result)
          at == EntryIndex(entries, result.entry_key)
      IN  IF DOMAIN changes # {} /\ at # 0
          THEN AcceptAllLoop([entries EXCEPT ![at] = ApplyChanges(@, changes)],
                             [rs EXCEPT ![i] = AcceptedResult(@, changes)], i + 1)
          ELSE AcceptAllLoop(entries, rs, i + 1)

\* src 4154-4167: the restored entry
RestoredEntry(entry, result, field_to_restore) ==
    IF field_to_restore \in DOMAIN result.original_values
    THEN Put(entry, field_to_restore, result.original_values[field_to_restore])
    ELSE IF field_to_restore = "entrytype" /\ "entrytype" \in DOMAIN result.original_values
    THEN Put(entry, "ENTRYTYPE", result.original_values["entrytype"])
    ELSE Pop(entry, field_to_restore)

\* ---------------------------------------------------------------------------
\* Specification Spec: one review session over a loaded library
\* ---------------------------------------------------------------------------

\* the fields one save request names, accepted and rejected together
MaxFieldList == 1

\* the requests of one session
MaxRequests == 3

K1 == <<"k", "1">>
V_title == <<"D", "e", "e", "p", " ", "N", "e", "t", "w", "o", "r", "k", "s">>
V_2016 == <<"2", "0", "1", "6">>
V_2017 == <<"2", "0", "1", "7">>
V_nature == <<"N", "a", "t", "u", "r", "e">>
V_natur == <<"N", "a", "t", "u", "r">>
K2 == <<"k", "2">>
V_axid == <<"1", "7", "0", "6", ".", "0", "3", "7", "6", "2">>

\* the local entries a session may start from
LocalEntry(citekey, entry_type, fields) ==
    ("ID" :> citekey) @@ ("ENTRYTYPE" :> entry_type) @@ ("title" :> V_title) @@ fields

LocalEntries ==
    { LocalEntry(K1, T_misc, [year |-> V_2016]),
      LocalEntry(K1, T_misc, [journal |-> V_nature, doi |-> V_doi1]),
      LocalEntry(K1, T_article, [doi |-> V_doi1]),
      LocalEntry(K1, T_article, [year |-> V_2016, journal |-> V_nature, doi |-> V_doi1]) }

CrossrefRecord ==
    ("title" :> V_title) @@ ("published-print" :> V_2017) @@
    ("container-title" :> V_nature) @@ ("DOI" :> V_doi1) @@
    ("type" :> CR_journal_article)

ScholarRecord ==
    [title |-> V_title, year |-> V_2017, journal |-> V_natur, doi |-> V_doi1,
     arxiv_id |-> V_axid]

ArxivRecord == [title |-> V_title, year |-> V_2016, arxiv_id |-> V_axid]

\* what the registries hold for the paper of an entry
RegistryStates ==
    { "crossref" :> CrossrefRecord,
      "semantic_scholar" :> ScholarRecord,
      ("crossref" :> CrossrefRecord) @@ ("semantic_scholar" :> ScholarRecord),
      ("crossref" :> CrossrefRecord) @@ ("semantic_scholar" :> ScholarRecord)
          @@ ("arxiv" :> ArxivRecord) }

\* the libraries a session may open: the entries and, for the paper of each,
\* what the registries hold
Libraries ==
    { [entries |-> <<e>>, registries |-> <<w>>] : e \in LocalEntries, w \in RegistryStates }
    \cup
    { [entries |-> << LocalEntry(K1, T_article, [year |-> V_2016, doi |-> V_doi1]),
                     LocalEntry(K2, T_misc, [journal |-> V_nature]) >>,
       registries |-> << "crossref" :> CrossrefRecord,
                         "semantic_scholar" :> ScholarRecord >>] }

\* the fields a request of the review page may name
OpFields == {"year", "journal", "entrytype"}
RestoreFields == OpFields \cup {"title"}
SelectableSources == {"crossref", "semantic_scholar"}

RECURSIVE FieldLists(_)
FieldLists(n) ==
    IF n = 0 THEN {<<>>}
    ELSE LET shorter == FieldLists(n - 1)
         IN  shorter \cup {<<f>> \o s : f \in OpFields, s \in shorter}

\* selected_sources of a request: a source for none or one accepted field
Selections(accepted_fields) ==
    {EmptyDict} \cup {f :> s : f \in Range(accepted_fields), s \in SelectableSources}

Op(op, entry_key, field, accepted_fields, rejected_fields, status) ==
    [op |-> op, entry_key |-> entry_key, field |-> field,
     accepted_fields |-> accepted_fields, rejected_fields |-> rejected_fields,
     status |-> status]

\* the session opens on a library that validate_all has just validated
Init ==
    /\ FnIdle
    /\ FetchIdle
    /\ PoolIdle
    /\ RateIdle
    /\ \E library \in Libraries :
          /\ db = library.entries
          /\ registries = library.registries
          /\ results = [i \in DOMAIN library.entries |->
                           validate_entry(library.entries[i], library.registries[i])]
          /\ loaded = library.entries
    /\ lastOp = Op("load", None, None, <<>>, <<>>, "ok")
    /\ served = 0

\* POST /api/save
SaveChanges ==
    \E i \in DOMAIN db, accepted_fields \in FieldLists(MaxFieldList),
       rejected_fields \in FieldLists(MaxFieldList) :
      \E selected_sources \in Selections(accepted_fields) :
        LET entry_key == db[i]["ID"]
            Served(ei, ri, accepted, nothing) ==
                /\ db' = [db EXCEPT ![ei] = accepted.entry]
                /\ results' = [results EXCEPT ![ri] = accepted.result]
                /\ \E write_ok \in (IF nothing THEN {TRUE} ELSE BOOLEAN) :
                      lastOp' = Op("save", entry_key, None, accepted_fields, rejected_fields,
                                   IF nothing THEN "nothing_applied"
                                   ELSE IF write_ok THEN "ok" ELSE "write_failed")
            Accepted(ei, ri, rejected, accepted) ==
                Served(ei, ri, accepted,
                       accepted.applied_count = 0 /\ rejected.restored_count = 0)
            Rejected(ei, ri, rejected) ==
                Accepted(ei, ri, rejected,
                         AcceptLoop(rejected.entry, results[ri], 0, accepted_fields,
                                    selected_sources))
            Found(ei, ri) ==
                /\ ei # 0 /\ ri # 0
                /\ Rejected(ei, ri, RejectLoop(db[ei], results[ri], 0, rejected_fields))
        IN  /\ served < MaxRequests
            /\ Len(accepted_fields) + Len(rejected_fields) <= MaxFieldList
            /\ Found(EntryIndex(db, entry_key), ResultIndex(results, entry_key))
            /\ served' = served + 1
            /\ UNCHANGED <<registries, loaded>>
            /\ UNCHANGED notSession

\* POST /api/restore
RestoreField ==
    \E i \in DOMAIN db, field_to_restore \in RestoreFields :
        LET entry_key == db[i]["ID"]
            Restored(ei, ri, entry) ==
                /\ results' = [results EXCEPT
                                  ![ri] = validate_entry(entry, registries[ei])]
                /\ db' = save_updated_bib([db EXCEPT ![ei] = entry])
            Found(ei, ri) ==
                /\ ei # 0 /\ ri # 0
                /\ Restored(ei, ri, RestoredEntry(db[ei], results[ri], field_to_restore))
        IN  /\ served < MaxRequests
            /\ Found(EntryIndex(db, entry_key), ResultIndex(results, entry_key))
            /\ \E write_ok \in BOOLEAN :
                  lastOp' = Op("restore", entry_key, field_to_restore, <<>>, <<>>,
                               IF write_ok THEN "ok" ELSE "write_failed")
            /\ served' = served + 1
            /\ UNCHANGED <<registries, loaded>>
            /\ UNCHANGED notSession

\* POST /api/accept_all_global
AcceptAllGlobal ==
    LET Done(done) ==
            /\ results' = done.results
            /\ db' = save_updated_bib(done.entries)
    IN  /\ served < MaxRequests
        /\ Done(AcceptAllLoop(db, results, 1))
        /\ \E write_ok \in BOOLEAN :
              lastOp' = Op("accept_all_global", None, None, <<>>, <<>>,
                           IF write_ok THEN "ok" ELSE "write_failed")
        /\ served' = served + 1
        /\ UNCHANGED <<registries, loaded>>
        /\ UNCHANGED notSession

\* POST /api/reject_all_global
RejectAllGlobal ==
    /\ served < MaxRequests
    /\ results' = [i \in DOMAIN results |->
                      [results[i] EXCEPT !.fields_updated = EmptyDict,
                                         !.fields_conflict = EmptyDict,
                                         !.fields_different = EmptyDict]]
    /\ lastOp' = Op("reject_all_global", None, None, <<>>, <<>>, "ok")
    /\ served' = served + 1
    /\ UNCHANGED <<db, registries, loaded>>
    /\ UNCHANGED notSession

Next == SaveChanges \/ RestoreField \/ AcceptAllGlobal \/ RejectAllGlobal

Spec == Init /\ [][Next]_vars

\* the four classification maps of one result, as sets of field names
ClassMaps(result) ==
    <<DOMAIN result.fields_updated, DOMAIN result.fields_conflict,
      DOMAIN result.fields_identical, DOMAIN result.fields_different>>

\* C1: after the priority merge and after every sequence of save, restore,
\* accept-all and reject-all requests, no field name is a key of more than one
\* of fields_updated, fields_conflict, fields_identical and fields_different.
C1_ExclusiveClassification ==
    \A i \in DOMAIN results :
        \A a, b \in 1..4 :
            a # b => ClassMaps(results[i])[a] \cap ClassMaps(results[i])[b] = {}

\* C1's case: accept-all has just moved a proposed value, one the entry did
\* not hold when it was loaded, into fields_identical
C1_Witness ==
    /\ lastOp.op = "accept_all_global"
    /\ \E i \in DOMAIN results :
          \E f \in DOMAIN results[i].fields_identical \ {"entrytype"} :
              /\ results[i].fields_identical[f] # Get(loaded[i], f, <<>>)
              /\ db[i][f] = results[i].fields_identical[f]

\* C4: restore(f) leaves the record's value of f equal to the value f had
\* when the entry was loaded, or f absent if it was absent then, after any
\* sequence of session operations; and original_values is never changed by a
\* session operation.
C4_RestoreYieldsLoadedValue ==
    /\ lastOp.op = "restore" =>
          LET i == EntryIndex(db, lastOp.entry_key)
              f == lastOp.field
          IN  IF f = "entrytype"
              THEN db[i]["ENTRYTYPE"] = loaded[i]["ENTRYTYPE"]
              ELSE IF f \in DOMAIN loaded[i]
              THEN f \in DOMAIN db[i] /\ db[i][f] = loaded[i][f]
              ELSE f \notin DOMAIN db[i]
    /\ \A i \in DOMAIN results :
          results[i].original_values = OriginalValues(loaded[i])

\* the three pending maps of one result
PendingMaps(result) ==
    <<result.fields_updated, result.fields_conflict, result.fields_different>>

\* C13: when the write of a /api/save request fails, the error is returned and
\* the in-memory state is rolled back: the store's records and the pending
\* maps fields_updated, fields_conflict and fields_different are as they were
\* before the request.
C13_FailedSaveRollsBack ==
    [][ (lastOp'.op = "save" /\ lastOp'.status = "write_failed") =>
            /\ db' = db
            /\ \A i \in DOMAIN results :
                  PendingMaps(results'[i]) = PendingMaps(results[i]) ]_vars

\* C14: after a /api/save request, every rejected field has in the record the
\* value original_values holds for it, or is absent from the record if it was
\* absent originally, in every session state, also when the field was accepted
\* earlier in the session and is in no pending map any more.
C14_RejectRestoresOriginal ==
    lastOp.op = "save" =>
        LET i == EntryIndex(db, lastOp.entry_key)
            original_values == results[ResultIndex(results, lastOp.entry_key)].original_values
        IN  \A f \in Range(lastOp.rejected_fields) \ Range(lastOp.accepted_fields) :
                IF f \in DOMAIN original_values
                THEN IF f = "entrytype"
                     THEN db[i]["ENTRYTYPE"] = original_values[f]
                     ELSE f \in DOMAIN db[i] /\ db[i][f] = original_values[f]
                ELSE f \notin DOMAIN db[i]

\* C16: after a save request, no field of its accepted_fields is a key of
\* fields_updated, fields_conflict or fields_different of the entry's result.
C16_AcceptedLeavesPending ==
    lastOp.op = "save" =>
        LET result == results[ResultIndex(results, lastOp.entry_key)]
        IN  \A f \in Range(lastOp.accepted_fields) :
                /\ f \notin DOMAIN result.fields_updated
                /\ f \notin DOMAIN result.fields_conflict
                /\ f \notin DOMAIN result.fields_different

\* C16's case: the first request of the session accepted a field whose
\* proposed value differs from the loaded one, and the value was written
C16_Witness ==
    /\ served = 1
    /\ lastOp.op = "save"
    /\ lastOp.status = "ok"
    /\ \E f \in Range(lastOp.accepted_fields) \ {"entrytype"} :
          LET i == EntryIndex(db, lastOp.entry_key)
          IN  /\ f \in DOMAIN db[i]
              /\ db[i][f] # Get(loaded[i], f, <<>>)

\* C17: after accept_all_global, every field that was pending in some result
\* holds the proposed API value in the in-memory record (the entry type, for
\* entrytype), and the three pending maps of every result are empty.
C17_AcceptAllAppliesEverything ==
    [][ lastOp'.op = "accept_all_global" =>
            \A r \in DOMAIN results :
                /\ PendingMaps(results'[r]) = <<EmptyDict, EmptyDict, EmptyDict>>
                /\ \A f \in DOMAIN results[r].fields_updated
                            \cup DOMAIN results[r].fields_conflict
                            \cup DOMAIN results[r].fields_different :
                      LET i == EntryIndex(db, results[r].entry_key)
                      IN  IF f = "entrytype"
                          THEN db'[i]["ENTRYTYPE"] = ProposedValue(results[r], f)
                          ELSE /\ f \in DOMAIN db'[i]
                               /\ db'[i][f] = ProposedValue(results[r], f) ]_vars

\* C18: after every commit (a save, restore or accept_all_global request whose
\* write succeeded) the stored record of each entry has no field outside the
\* allowed set of its entry type, and it keeps its ID and its ENTRYTYPE key.
C18_CommitKeepsAllowedOnly ==
    (lastOp.op \in {"save", "restore", "accept_all_global"} /\ lastOp.status = "ok") =>
        \A i \in DOMAIN db :
            /\ db[i] = filter_entry_fields(db[i])
            /\ "ID" \in DOMAIN db[i] /\ db[i]["ID"] = loaded[i]["ID"]
            /\ "ENTRYTYPE" \in DOMAIN db[i]

\* ---------------------------------------------------------------------------
\* Specification SpecFetch: validate_entry of one entry, its first-round
\* futures completing in any order (src 1796-1876, 1878-2294)
\* ---------------------------------------------------------------------------

OpenAlexRecord ==
    [title |-> V_title, year |-> V_2016, journal |-> V_natur, doi |-> V_doi1,
     type |-> OA_preprint]

FetchEntries ==
    { LocalEntry(K1, t, y @@ j @@ d) :
        t \in {T_misc, T_article},
        y \in {EmptyDict, [year |-> V_2016]},
        j \in {EmptyDict, [journal |-> V_nature]},
        d \in {EmptyDict, [doi |-> V_doi1]} }

FetchRegistries ==
    { c @@ s @@ o @@ a :
        c \in {EmptyDict, "crossref" :> CrossrefRecord},
        s \in {EmptyDict, "semantic_scholar" :> ScholarRecord},
        o \in {EmptyDict, "openalex" :> OpenAlexRecord},
        a \in {EmptyDict, "arxiv" :> ArxivRecord} }

\* validate_entry has submitted the futures of the first round
InitFetch ==
    /\ FnIdle
    /\ PoolIdle
    /\ RateIdle
    /\ \E e \in FetchEntries, w \in FetchRegistries :
          /\ db = <<e>>
          /\ registries = <<w>>
          /\ loaded = <<e>>
          /\ futures = Range(PlanOf(ValFields(e)))
    /\ results = <<>>
    /\ lastOp = None
    /\ served = 0
    /\ phase = "fetching"
    /\ concurrent_results = <<>>

\* src 1865-1874: as_completed hands over the next future to complete, and
\* its record, if it has one, is stored under its source
FutureCompletes ==
    /\ phase = "fetching"
    /\ \E source \in futures :
          /\ futures' = futures \ {source}
          /\ concurrent_results' = FetchInto(concurrent_results, source, registries[1])
    /\ UNCHANGED <<db, registries, results, phase>>
    /\ UNCHANGED notFetch

\* src 1969-2294: with every future done, the sequential rounds and the merge
MergeFetched ==
    /\ phase = "fetching"
    /\ futures = {}
    /\ LET Merged(val_fields) ==
               ResultOf(db[1], val_fields,
                        FetchRest(val_fields, concurrent_results, registries[1]))
       IN  results' = << Merged(ValFields(db[1])) >>
    /\ phase' = "merged"
    /\ UNCHANGED <<db, registries, futures, concurrent_results>>
    /\ UNCHANGED notFetch

NextFetch == FutureCompletes \/ MergeFetched

SpecFetch == InitFetch /\ [][NextFetch]_vars

\* the value a source offers for a field of entry i, in normalized form: what
\* compare_fields of the entry and that source's record reports for the field
OfferedValue(i, source, field_name) ==
    LET Normalized(api_val) ==
            IF api_val = None THEN None
            ELSE normalize_string_for_comparison(api_val, field_name)
        ValueIn(comparison) ==
            Normalized(IF field_name \in DOMAIN comparison.updated
                       THEN comparison.updated[field_name]
                       ELSE IF field_name \in DOMAIN comparison.conflicts
                       THEN comparison.conflicts[field_name][2]
                       ELSE IF field_name \in DOMAIN comparison.different
                       THEN comparison.different[field_name][2]
                       ELSE IF field_name \in DOMAIN comparison.identical
                       THEN comparison.identical[field_name]
                       ELSE None)
    IN  ValueIn(compare_fields(db[i], ODGet(results[i].all_sources_data, source),
                               source))

\* C2: no two sources listed in field_source_options[f] offered values with
\* the same normalized form.
C2_OptionsHaveDistinctValues ==
    \A i \in DOMAIN results :
        \A f \in DOMAIN results[i].field_source_options :
            LET options == results[i].field_source_options[f]
            IN  \A a, b \in 1..Len(options) :
                    a # b => OfferedValue(i, options[a], f) # OfferedValue(i, options[b], f)

\* C2's case: local year 2016, Crossref 2017 and Semantic Scholar 2017 leave
\* Crossref as the only option for year
C2_Witness ==
    /\ phase = "merged"
    /\ Get(db[1], "year", <<>>) = V_2016
    /\ {"crossref", "semantic_scholar"} \subseteq ODKeys(results[1].all_sources_data)
    /\ OfferedValue(1, "crossref", "year") = V_2017
    /\ OfferedValue(1, "semantic_scholar", "year") = V_2017
    /\ "openalex" \notin ODKeys(results[1].all_sources_data)
    /\ results[1].field_source_options["year"] = <<"crossref">>

\* C3: for every field with a winning source, field_sources[f] is the first
\* element of field_source_options[f], whichever sources returned data.
C3_WinnerIsFirstOption ==
    \A i \in DOMAIN results :
        \A f \in DOMAIN results[i].field_sources :
            /\ f \in DOMAIN results[i].field_source_options
            /\ results[i].field_source_options[f] # <<>>
            /\ results[i].field_sources[f] = Head(results[i].field_source_options[f])

\* C3's case: a field for which two sources offer different values
C3_Witness ==
    /\ phase = "merged"
    /\ "journal" \in DOMAIN results[1].field_sources
    /\ Len(results[1].field_source_options["journal"]) >= 2
    /\ results[1].field_sources["journal"] = "crossref"

\* the part of a ValidationResult the priority merge decides
MergeView(result) ==
    [fields_updated |-> result.fields_updated,
     fields_conflict |-> result.fields_conflict,
     fields_identical |-> result.fields_identical,
     fields_different |-> result.fields_different,
     field_sources |-> result.field_sources,
     field_source_options |-> result.field_source_options]

\* C9: for one entry and fixed source records, the classification maps,
\* field_sources and field_source_options are the same for every order in
\* which the concurrent adapters complete.
C9_ArrivalOrderIrrelevant ==
    phase = "merged" =>
        MergeView(results[1]) = MergeView(validate_entry(db[1], registries[1]))

\* C9's case: Semantic Scholar's record arrived before Crossref's, and the two
\* disagree on a field
C9_Witness ==
    /\ phase = "merged"
    /\ \E a, b \in 1..Len(concurrent_results) :
          /\ a < b
          /\ concurrent_results[a][1] = "semantic_scholar"
          /\ concurrent_results[b][1] = "crossref"
    /\ "journal" \in DOMAIN results[1].field_source_options
    /\ results[1].field_source_options["journal"] = <<"crossref", "semantic_scholar">>

\* ---------------------------------------------------------------------------
\* Specification SpecValidateAll: validate_all over a library, the pool's
\* workers completing in any order (src 2296-2372)
\* ---------------------------------------------------------------------------

\* the workers of the pool (max_workers)
MaxWorkers == 2

K3 == <<"k", "3">>

\* the libraries validate_all may run over; the last one repeats a key
PoolLibraries ==
    { [entries |-> << LocalEntry(ks[1], T_article, [year |-> V_2016, doi |-> V_doi1]),
                     LocalEntry(ks[2], T_misc, [journal |-> V_nature]),
                     LocalEntry(ks[3], T_misc, y) >>,
       registries |-> << "crossref" :> CrossrefRecord, w,
                         "semantic_scholar" :> ScholarRecord >>] :
        ks \in {<<K1, K2, K3>>, <<K3, K1, K2>>, <<K2, K3, K1>>, <<K1, K2, K1>>},
        y \in {EmptyDict, [year |-> V_2016]},
        w \in {EmptyDict, "semantic_scholar" :> ScholarRecord} }

\* key_order = {entry["ID"]: i ...}: the last position of the key, from 0
key_order(entries, entry_key) ==
    LET hits == {i \in DOMAIN entries : entries[i]["ID"] = entry_key}
    IN  IF hits = {} THEN 0 ELSE (CHOOSE i \in hits : \A j \in hits : j <= i) - 1

\* list.sort: x goes behind every element whose key is not greater (stable)
RECURSIVE InsertByKey(_, _, _)
InsertByKey(sorted, x, entries) ==
    IF sorted = <<>> THEN <<x>>
    ELSE IF key_order(entries, x.entry_key) < key_order(entries, Head(sorted).entry_key)
    THEN <<x>> \o sorted
    ELSE <<Head(sorted)>> \o InsertByKey(Tail(sorted), x, entries)

RECURSIVE SortFrom(_, _, _)
SortFrom(sorted, rest, entries) ==
    IF rest = <<>> THEN sorted
    ELSE SortFrom(InsertByKey(sorted, Head(rest), entries), Tail(rest), entries)

\* a variant of SortResults that leaves the list in completion order
LeaveUnsorted(rs, entries) == rs

\* src 2362-2363: self.results.sort(key=lambda x: key_order.get(x.entry_key, 0))
SortResults(rs, entries) == SortFrom(<<>>, rs, entries)

\* src 2341-2349: entry[existing_key] = value for every proposed new field,
\* existing_key being the entry's key that matches the name whatever its case
ApplyUpdates(entry, fields_updated) ==
    LET existing_key(field_name) ==
            IF \E k \in DOMAIN entry : KeyLower(k) = field_name
            THEN CHOOSE k \in DOMAIN entry : KeyLower(k) = field_name
            ELSE field_name
        written == {existing_key(f) : f \in DOMAIN fields_updated}
    IN  [k \in DOMAIN entry \cup written |->
            IF k \in written
            THEN fields_updated[CHOOSE f \in DOMAIN fields_updated : existing_key(f) = k]
            ELSE entry[k]]

InitValidateAll ==
    /\ FnIdle
    /\ RateIdle
    /\ \E library \in PoolLibraries :
          /\ db = library.entries
          /\ registries = library.registries
          /\ loaded = library.entries
    /\ update_bib \in BOOLEAN
    /\ results = <<>>
    /\ lastOp = None
    /\ served = 0
    /\ phase = "loaded"
    /\ futures = {}
    /\ concurrent_results = <<>>
    /\ started = 0
    /\ running = {}
    /\ completion_order = <<>>

\* src 2310-2324: the pre-sort and save when updating, then every entry is
\* submitted to the pool
SubmitAll ==
    /\ phase = "loaded"
    /\ db' = IF update_bib THEN save_updated_bib(db) ELSE db
    /\ phase' = "validating"
    /\ UNCHANGED <<registries, results, update_bib, started, running, completion_order>>
    /\ UNCHANGED notPool

\* a free worker takes the next submitted entry
WorkerTakesEntry ==
    /\ phase = "validating"
    /\ started < Len(db)
    /\ Cardinality(running) < MaxWorkers
    /\ started' = started + 1
    /\ running' = running \cup {started + 1}
    /\ UNCHANGED <<db, registries, results, phase, update_bib, completion_order>>
    /\ UNCHANGED notPool

\* src 2326-2349: as_completed hands over the next entry to complete; its
\* result is appended, and its new fields are written when updating
EntryCompletes ==
    /\ phase = "validating"
    /\ \E idx \in running :
          LET Completed(result) ==
                  /\ results' = Append(results, result)
                  /\ db' = IF update_bib /\ DOMAIN result.fields_updated # {}
                           THEN [db EXCEPT ![idx] = ApplyUpdates(@, result.fields_updated)]
                           ELSE db
          IN  /\ Completed(validate_entry(db[idx], registries[idx]))
              /\ running' = running \ {idx}
              /\ completion_order' = Append(completion_order, idx)
    /\ UNCHANGED <<registries, phase, update_bib, started>>
    /\ UNCHANGED notPool

\* src 2361-2372: with the pool drained, the results are sorted and returned
ReturnSorted ==
    /\ phase = "validating"
    /\ started = Len(db)
    /\ running = {}
    /\ results' = SortResults(results, db)
    /\ phase' = "returned"
    /\ UNCHANGED <<db, registries, update_bib, started, running, completion_order>>
    /\ UNCHANGED notPool

NextValidateAll == SubmitAll \/ WorkerTakesEntry \/ EntryCompletes \/ ReturnSorted

SpecValidateAll == InitValidateAll /\ [][NextValidateAll]_vars

UniqueKeys == \A i, j \in DOMAIN db : db[i]["ID"] = db[j]["ID"] => i = j

\* C10: whatever order the pool completes the entries in, the list that
\* validate_all returns is in the input order of the store's entries, given
\* unique citation keys.
C10_ResultsInInputOrder ==
    (phase = "returned" /\ UniqueKeys) =>
        /\ Len(results) = Len(db)
        /\ \A i \in DOMAIN db : results[i].entry_key = db[i]["ID"]

\* C10's case: the entries completed out of input order and were returned
C10_Witness ==
    /\ phase = "returned"
    /\ UniqueKeys
    /\ Len(completion_order) = 3
    /\ completion_order[1] > completion_order[2]
    /\ results[1].entry_key = db[1]["ID"]

\* ---------------------------------------------------------------------------
\* Specification SpecRate: the adapters' waits and requests under concurrent
\* callers (src 724-725, 751-753, 850-851, 1196-1197)
\* ---------------------------------------------------------------------------

\* the threads calling adapters at once, the seconds the clock runs for, and
\* the adapter calls made in all
NumThreads == 2
MaxTime == 10
MaxCalls == 3

\* src 329: delay: float = 1.0, in seconds
delay == 1

\* src 752: time.sleep(5.0), in seconds
ARXIV_SLEEP == 5

RateSources == {"crossref", "semantic_scholar", "arxiv"}

Callers == 1..NumThreads

InitRate ==
    /\ FnIdle
    /\ SessionIdle
    /\ FetchIdle
    /\ PoolIdle
    /\ now = 0
    /\ threads = [w \in Callers |-> [source |-> "none", pc |-> "idle", wake |-> 0]]
    /\ arxiv_lock = 0
    /\ request_log = [s \in RateSources |-> <<>>]

\* the adapter calls made so far: the requests sent and the calls under way
CallsMade ==
    Len(request_log["crossref"]) + Len(request_log["semantic_scholar"])
        + Len(request_log["arxiv"])
        + Cardinality({w \in Callers : threads[w].pc \in {"wait_lock", "sleep"}})

\* a variant of LockFree that lets every caller in
LockIgnored == TRUE

\* src 751: with self.arxiv_lock blocks while another thread holds the lock
LockFree == arxiv_lock = 0

\* a thread enters an adapter: time.sleep(self.delay) at once (src 724), or
\* the wait for the arXiv lock (src 751)
CallAdapter ==
    \E w \in Callers, s \in RateSources :
        /\ threads[w].pc = "idle"
        /\ CallsMade < MaxCalls
        /\ threads' = [threads EXCEPT ![w] =
                          IF s = "arxiv"
                          THEN [source |-> s, pc |-> "wait_lock", wake |-> 0]
                          ELSE [source |-> s, pc |-> "sleep", wake |-> now + delay]]
        /\ UNCHANGED <<now, arxiv_lock, request_log>>
        /\ UNCHANGED notRate

\* src 751-752: the lock is taken and time.sleep(5.0) starts inside it
AcquireArxivLock ==
    \E w \in Callers :
        /\ threads[w].pc = "wait_lock"
        /\ LockFree
        /\ arxiv_lock' = w
        /\ threads' = [threads EXCEPT ![w].pc = "sleep", ![w].wake = now + ARXIV_SLEEP]
        /\ UNCHANGED <<now, request_log>>
        /\ UNCHANGED notRate

\* src 725, 753: the sleep is over and requests.get goes out
SendRequest ==
    \E w \in Callers :
        /\ threads[w].pc = "sleep"
        /\ now >= threads[w].wake
        /\ threads' = [threads EXCEPT ![w].pc = "request"]
        /\ request_log' = [request_log EXCEPT ![threads[w].source] = Append(@, now)]
        /\ UNCHANGED <<now, arxiv_lock>>
        /\ UNCHANGED notRate

\* the response, or the failure of the request, returns; leaving the with
\* block of src 751-753 releases the lock
ResponseArrives ==
    \E w \in Callers :
        /\ threads[w].pc = "request"
        /\ arxiv_lock' = IF threads[w].source = "arxiv" THEN 0 ELSE arxiv_lock
        /\ threads' = [threads EXCEPT ![w] = [source |-> "none", pc |-> "idle", wake |-> 0]]
        /\ UNCHANGED <<now, request_log>>
        /\ UNCHANGED notRate

\* a second passes
Tick ==
    /\ now < MaxTime
    /\ now' = now + 1
    /\ UNCHANGED <<threads, arxiv_lock, request_log>>
    /\ UNCHANGED notRate

NextRate == CallAdapter \/ AcquireArxivLock \/ SendRequest \/ ResponseArrives \/ Tick

SpecRate == InitRate /\ [][NextRate]_vars

\* the threads inside the arXiv critical section: sleeping or requesting
InArxivSection ==
    {w \in Callers : threads[w].source = "arxiv" /\ threads[w].pc \in {"sleep", "request"}}

Spaced(log, gap) == \A i \in 1..(Len(log) - 1) : log[i + 1] - log[i] >= gap

\* C7: at no time are two arXiv requests in flight: each arXiv request and
\* its 5.0 s delay run inside one critical section that one thread at a time
\* holds, so arXiv requests go out one after the other, 5 s apart or more.
C7_ArxivSerialized ==
    /\ Cardinality(InArxivSection) <= 1
    /\ \A w \in InArxivSection : arxiv_lock = w
    /\ Spaced(request_log["arxiv"], ARXIV_SLEEP)

\* C7's case: a second arXiv request is out while another caller waits
C7_Witness ==
    /\ Len(request_log["arxiv"]) = 2
    /\ \E w, x \in Callers :
          /\ threads[w].source = "arxiv" /\ threads[w].pc = "request"
          /\ threads[x].pc = "wait_lock"

\* C8: for every source other than arXiv, two consecutive requests to the
\* same source are at least the configured delay apart, whatever the number
\* of concurrent callers.
C8_RequestsSpacedByDelay ==
    \A s \in RateSources \ {"arxiv"} : Spaced(request_log[s], delay)

\* ---------------------------------------------------------------------------
\* Specification SpecFaults: validate_all over a library whose registries may
\* fail or answer with an unexpected payload (src 710-1270, 1865-1874,
\* 2036-2150, 2326-2351)
\* ---------------------------------------------------------------------------

\* what a registry may answer besides a record or nothing: the request fails
\* in transport, or the 200 payload has not the shape the adapter reads
TransportFailure == [failure |-> "transport"]
WrongShape == [failure |-> "wrong_shape"]
FaultResponses == {TransportFailure, WrongShape}

\* the adapters that parse XML (ET.fromstring); the others call response.json()
XmlSources == {"arxiv", "pubmed"}

\* the exception the try block of an adapter raises on a response: requests.get
\* raises RequestException; ET.fromstring raises ParseError on a payload that is
\* not the expected XML; the JSON adapters call .get on what they take for a
\* dict (a list for the body, null for a nested object: AttributeError)
RaisedBy(source, response) ==
    IF response = TransportFailure THEN "RequestException"
    ELSE IF response = WrongShape
    THEN (IF source \in XmlSources THEN "ParseError" ELSE "AttributeError")
    ELSE "none"

\* the except clause of each adapter
CaughtBy(source) ==
    IF source \in XmlSources THEN {"RequestException", "ParseError"}
    ELSE {"RequestException"}

\* the adapter call lets an exception out
Propagates(world, source) ==
    /\ source \in DOMAIN world
    /\ RaisedBy(source, world[source]) \notin CaughtBy(source) \cup {"none"}

\* the registries as the adapters that return report them: a failed request
\* gives nothing
Quiet(world) ==
    [s \in {x \in DOMAIN world : world[x] \notin FaultResponses} |-> world[s]]

\* a variant of DoiRoundCalls that asks Crossref a second time when its first
\* answer of the round was empty
DoiRoundCallsRetrying(doi, fetched, world) ==
    LET new_doi == IF doi = <<>>
                   THEN DiscoverDoi(<<"dblp", "semantic_scholar", "openalex", "pubmed">>,
                                    fetched)
                   ELSE None
    IN  IF new_doi = None \/ new_doi = <<>> THEN <<>>
        ELSE IF "crossref" \notin ODKeys(fetched) /\ ~Answers(world, "crossref")
        THEN <<"crossref", "crossref", "openalex">>
        ELSE <<"crossref", "openalex">>

\* src 2062-2107: the adapters the recursive DOI round calls, in call order
DoiRoundCalls(doi, fetched, world) ==
    LET AndOpenAlex(calls, f3) ==
            IF "openalex" \notin ODKeys(f3) THEN Append(calls, "openalex") ELSE calls
        AndDatacite(calls, f2) ==
            IF /\ "crossref" \notin ODKeys(fetched)
               /\ {"crossref", "zenodo", "datacite"} \cap ODKeys(f2) = {}
            THEN AndOpenAlex(Append(calls, "datacite"), FetchInto(f2, "datacite", world))
            ELSE AndOpenAlex(calls, f2)
        AndZenodo(calls, f1, new_doi) ==
            IF /\ "crossref" \notin ODKeys(fetched)
               /\ Contains(Lower(new_doi), P_ZENODO)
               /\ "zenodo" \notin ODKeys(f1)
            THEN AndDatacite(Append(calls, "zenodo"), FetchInto(f1, "zenodo", world))
            ELSE AndDatacite(calls, f1)
        Discovered(new_doi) ==
            IF new_doi = None \/ new_doi = <<>> THEN <<>>
            ELSE IF "crossref" \notin ODKeys(fetched)
            THEN AndZenodo(<<"crossref">>, FetchInto(fetched, "crossref", world), new_doi)
            ELSE AndZenodo(<<>>, fetched, new_doi)
    IN  Discovered(IF doi = <<>>
                   THEN DiscoverDoi(<<"dblp", "semantic_scholar", "openalex", "pubmed">>,
                                    fetched)
                   ELSE None)

\* src 2110-2150: the adapter the recursive arXiv round calls
ArxivRoundCalls(arxiv_id, fetched) ==
    IF /\ arxiv_id = None
       /\ DiscoverArxiv(<<"dblp", "semantic_scholar", "openalex", "crossref">>,
                        fetched) # None
       /\ "arxiv" \notin ODKeys(fetched)
    THEN <<"arxiv">> ELSE <<>>

\* src 2036-2150: the adapters validate_entry calls on its own thread after
\* the first round, in call order, as long as none of them raises
SequentialCalls(val_fields, first_round, world) ==
    LET doi == Get(val_fields, "doi", <<>>)
        ByPmid(pmid) ==
            LET Rounds(calls, withPubmed) ==
                    calls \o DoiRoundCalls(doi, withPubmed, world)
                          \o ArxivRoundCalls(extract_arxiv_id(val_fields),
                                             RecursiveDoiRound(doi, withPubmed, world))
            IN  IF pmid # <<>>
                THEN Rounds(<<"pubmed">>, FetchInto(first_round, "pubmed", world))
                ELSE Rounds(<<>>, first_round)
    IN  ByPmid(IF Get(val_fields, "pmid", <<>>) # <<>> THEN val_fields["pmid"]
               ELSE Get(val_fields, "pubmed", <<>>))

\* validate_entry raises: the first round swallows whatever a future raises
\* (src 1868-1874), the calls after it are not guarded
validate_entry_raises(entry, world) ==
    LET Raises(calls) == \E i \in DOMAIN calls : Propagates(world, calls[i])
        Of(val_fields) ==
            Raises(SequentialCalls(val_fields,
                                   CollectAnswers(PlanOf(val_fields), Quiet(world)),
                                   Quiet(world)))
    IN  Of(ValFields(entry))

\* src 1818-1863, 2047, 2076-2146: every adapter call one run of validate_entry
\* makes, the first round in submission order, then the calls on its own thread
AdapterCalls(entry, world) ==
    LET Of(val_fields) ==
            PlanOf(val_fields)
            \o SequentialCalls(val_fields, CollectAnswers(PlanOf(val_fields), world),
                               world)
    IN  Of(ValFields(entry))

V_pmid == <<"1", "2", "3">>

PubmedRecord == [title |-> V_title, year |-> V_2017, journal |-> V_nature]

\* the entries of the libraries: found by title only, by DOI, and by PubMed id
FaultEntries(citekey) ==
    { LocalEntry(citekey, T_misc, EmptyDict),
      LocalEntry(citekey, T_article, [doi |-> V_doi1]),
      LocalEntry(citekey, T_misc, [pmid |-> V_pmid]) }

\* per source: nothing, a record, a transport failure or an unexpected payload
FaultRegistries ==
    { c @@ s @@ o @@ p :
        c \in {EmptyDict} \cup {"crossref" :> r :
                  r \in {CrossrefRecord, TransportFailure, WrongShape}},
        s \in {EmptyDict} \cup {"semantic_scholar" :> r :
                  r \in {ScholarRecord, TransportFailure, WrongShape}},
        o \in {EmptyDict} \cup {"openalex" :> r :
                  r \in {OpenAlexRecord, TransportFailure, WrongShape}},
        p \in {EmptyDict} \cup {"pubmed" :> r :
                  r \in {PubmedRecord, TransportFailure, WrongShape}} }

FaultLibraries ==
    { [entries |-> <<e>>, registries |-> <<w>>] :
        e \in FaultEntries(K1), w \in FaultRegistries }
    \cup
    { [entries |-> <<LocalEntry(K1, T_misc, EmptyDict), e>>,
       registries |-> <<("semantic_scholar" :> ScholarRecord) @@ ("crossref" :> c),
                        "crossref" :> CrossrefRecord>>] :
        e \in FaultEntries(K2), c \in {CrossrefRecord, TransportFailure, WrongShape} }

\* validate_all has submitted every entry to the pool (src 2318-2324)
InitFaults ==
    /\ FnIdle
    /\ RateIdle
    /\ \E library \in FaultLibraries :
          /\ db = library.entries
          /\ registries = library.registries
          /\ loaded = library.entries
          /\ running = DOMAIN library.entries
          /\ started = Len(library.entries)
    /\ update_bib = FALSE
    /\ results = <<>>
    /\ lastOp = None
    /\ served = 0
    /\ phase = "validating"
    /\ futures = {}
    /\ concurrent_results = <<>>
    /\ completion_order = <<>>

\* src 2326-2351: as_completed hands over a future; future.result() returns the
\* entry's result, which is appended, or raises what validate_entry raised,
\* which is printed
FutureResult ==
    /\ phase = "validating"
    /\ \E idx \in running :
          /\ results' = IF validate_entry_raises(db[idx], registries[idx])
                        THEN results
                        ELSE Append(results,
                                    validate_entry(db[idx], Quiet(registries[idx])))
          /\ running' = running \ {idx}
          /\ completion_order' = Append(completion_order, idx)
    /\ UNCHANGED <<db, registries, phase, update_bib, started>>
    /\ UNCHANGED notPool

\* src 2361-2372
ReturnResults ==
    /\ phase = "validating"
    /\ running = {}
    /\ results' = SortResults(results, db)
    /\ phase' = "returned"
    /\ UNCHANGED <<db, registries, update_bib, started, running, completion_order>>
    /\ UNCHANGED notPool

NextFaults == FutureResult \/ ReturnResults

SpecFaults == InitFaults /\ [][NextFaults]_vars

\* C11: whatever the adapters' responses are (nothing, a transport failure, an
\* unexpected payload), in the first round, the PubMed fetch or the recursive
\* round, no error propagates: every entry handed over by the pool has given a
\* result, and validate_all returns one result for every entry of the store.
C11_NoErrorPropagates ==
    /\ Len(results) = Len(completion_order)
    /\ phase = "returned" =>
          /\ Len(results) = Len(db)
          /\ \A i \in DOMAIN db : results[i].entry_key = db[i]["ID"]

\* ---------------------------------------------------------------------------
\* Specification SpecOptions: validate_entry of entries whose short values and
\* page ranges the comparator leaves unclassified (src 1463-1495, 2182-2229)
\* ---------------------------------------------------------------------------

V_201 == <<"2", "0", "1">>
V_vol12 == <<"1", "2">>
V_vol13 == <<"1", "3">>
V_vol14 == <<"1", "4">>
V_page77 == <<"7", "7">>
V_pages == <<"7", "7", "0", "-", "7", "7", "8">>

OptionEntries ==
    { LocalEntry(K1, T_article, [doi |-> V_doi1] @@ y @@ v @@ p) :
        y \in {EmptyDict, [year |-> V_2016], [year |-> V_201]},
        v \in {EmptyDict, [volume |-> V_vol12]},
        p \in {EmptyDict, [pages |-> V_page77]} }

OptionRegistries ==
    { c @@ s @@ o :
        c \in {EmptyDict,
               "crossref" :> (("title" :> V_title) @@ ("published-print" :> V_2017) @@
                              ("volume" :> V_vol13) @@ ("page" :> V_pages) @@
                              ("DOI" :> V_doi1))},
        s \in {EmptyDict,
               "semantic_scholar" :> [title |-> V_title, year |-> V_2017,
                                      volume |-> V_vol13],
               "semantic_scholar" :> [title |-> V_title, year |-> V_2016,
                                      volume |-> V_vol14, pages |-> V_pages]},
        o \in {EmptyDict,
               "openalex" :> [title |-> V_title, year |-> V_2017, volume |-> V_vol14,
                              pages |-> V_pages]} }

\* validate_entry has submitted the futures of the first round
InitOptions ==
    /\ FnIdle
    /\ PoolIdle
    /\ RateIdle
    /\ \E e \in OptionEntries, w \in OptionRegistries :
          /\ db = <<e>>
          /\ registries = <<w>>
          /\ loaded = <<e>>
          /\ futures = Range(PlanOf(ValFields(e)))
    /\ results = <<>>
    /\ lastOp = None
    /\ served = 0
    /\ phase = "fetching"
    /\ concurrent_results = <<>>

SpecOptions == InitOptions /\ [][NextFetch]_vars

\* src 1432-1464, 1641-1660: the value a mapped source's record supplies for a
\* field, as compare_fields reads it (api_value_str), before it is compared
\* with the local value; None when the record has none
SuppliedValue(api_data, source, bib_field) ==
    LET api_field == IF source = "crossref" THEN CrossrefFieldMapping[bib_field]
                     ELSE OtherFieldMapping[bib_field]
        Value(api_value) ==
            IF api_value = None \/ Strip(api_value) = <<>>
               \/ Strip(api_value) = V_emptylist
            THEN None
            ELSE Strip(api_value)
    IN  IF api_field \notin DOMAIN api_data THEN None
        ELSE Value(IF source = "crossref"
                   THEN CrossrefTransform(bib_field, api_data[api_field])
                   ELSE OtherTransform(bib_field, api_data[api_field], source))

\* the sources of higher priority than source
HigherPriority(source) ==
    LET at == CHOOSE i \in DOMAIN priority_order : priority_order[i] = source
    IN  {priority_order[j] : j \in 1..(at - 1)}

\* source supplied, for the field, a value whose normalized form no fetched
\* source of higher priority supplied
SuppliesNewValue(result, source, bib_field) ==
    LET Norm(s) == normalize_string_for_comparison(
                       SuppliedValue(ODGet(result.all_sources_data, s), s, bib_field),
                       bib_field)
        Supplies(s) ==
            SuppliedValue(ODGet(result.all_sources_data, s), s, bib_field) # None
    IN  /\ Supplies(source)
        /\ \A h \in HigherPriority(source) \cap ODKeys(result.all_sources_data) :
              Supplies(h) => Norm(h) # Norm(source)

\* C12: for every entry, field f and source S that returned data, S is in
\* field_source_options[f] if and only if S supplied a value for f whose
\* normalized form no higher-priority source supplied, also when the
\* comparator skips the field (pages mismatch, a value of length <= 3).
C12_OptionsIffNewValue ==
    phase = "merged" =>
        \A S \in ODKeys(results[1].all_sources_data)
                    \cap ({"crossref"} \cup MappedSources) :
            \A f \in ComparedFields(S) :
                (/\ f \in DOMAIN results[1].field_source_options
                 /\ S \in Range(results[1].field_source_options[f]))
                <=> SuppliesNewValue(results[1], S, f)

\* C15: a restore request issues no source adapter request; the merge is run
\* again on the cached all_sources_data of the entry, which the request leaves
\* unchanged.
C15_RestoreUsesCache ==
    [][ lastOp'.op = "restore" =>
            LET ei == EntryIndex(db, lastOp'.entry_key)
                ri == ResultIndex(results, lastOp'.entry_key)
            IN  /\ AdapterCalls(RestoredEntry(db[ei], results[ri], lastOp'.field),
                                registries[ei]) = <<>>
                /\ results'[ri].all_sources_data = results[ri].all_sources_data ]_vars


\* ---------------------------------------------------------------------------
\* Specification SpecPlan: the first round of one entry, call by call: what
\* _fetch_concurrently submits and the request each adapter builds from the
\* arguments it is called with (src 1796-1876 and the adapters' first lines)
\* ---------------------------------------------------------------------------

\* executor.submit(adapter, *args): the source and the positional arguments
CallOf(source, args) == [source |-> source, args |-> args]

\* src 1818-1863: the calls _fetch_concurrently submits, in submission order
FirstRoundCalls(doi, arxiv_id, title, author) ==
    LET by_doi == doi # <<>> /\ ArxivDoiCapture(doi) = None
        by_title == title # <<>> /\ Len(title) > 10
    IN  (IF by_doi THEN <<CallOf("crossref", <<doi>>)>> ELSE <<>>)
        \o (IF by_doi /\ Contains(Lower(doi), P_ZENODO)
            THEN <<CallOf("zenodo", <<doi>>)>> ELSE <<>>)
        \o (IF by_doi THEN <<CallOf("datacite", <<doi>>)>> ELSE <<>>)
        \o (IF arxiv_id # None /\ arxiv_id # <<>>
            THEN <<CallOf("arxiv", <<arxiv_id>>)>> ELSE <<>>)
        \o (IF by_title
            THEN <<CallOf("dblp", <<title, author>>),
                   CallOf("semantic_scholar", <<title, doi>>)>>
            ELSE <<>>)
        \o (IF doi # <<>> THEN <<CallOf("openalex", <<None, doi>>)>>
            ELSE IF by_title THEN <<CallOf("openalex", <<title, None>>)>>
            ELSE <<>>)

\* what one adapter call sends: the endpoint and the key or query put into it
Request(endpoint, key) == [endpoint |-> endpoint, key |-> key]

\* the adapter returned before it sent anything
NoRequest == Request("none", <<>>)

\* `if x:` of an optional string
Given(x) == x # None /\ x # <<>>

\* the digits of s from position j on
RECURSIVE DigitRun(_, _)
DigitRun(s, j) ==
    IF j <= Len(s) /\ s[j] \in Digits THEN <<s[j]>> \o DigitRun(s, j + 1) ELSE <<>>

\* src 1016-1026: the record the Zenodo adapter asks for
fetch_zenodo_request(doi) ==
    LET d == normalize_doi(doi)
        hits == {i \in 1..Len(d) :
                    /\ Slice(d, i, i + 6) = P_ZENODO \o <<".">>
                    /\ DigitRun(d, i + 7) # <<>>}
    IN  IF ~Contains(Lower(d), P_ZENODO) \/ hits = {} THEN NoRequest
        ELSE Request("zenodo.org/api/records",
                     DigitRun(d, 7 + CHOOSE i \in hits : \A k \in hits : i <= k))

\* src 842-847, 901-906: the query of a title search with an author hint
SearchQuery(title, author) ==
    IF Given(author) THEN title \o <<" ">> \o author ELSE title

\* src 1162-1189: fetch_openalex_data(self, doi=None, title=None)
fetch_openalex_request(doi, title) ==
    IF Given(doi) THEN Request("openalex/works/doi", normalize_doi(doi))
    ELSE IF Given(title) THEN Request("openalex/works?filter=title.search", title)
    ELSE NoRequest

\* the request an adapter builds, its parameters bound to the arguments of the
\* call by position
RequestOf(call) ==
    CASE call.source = "crossref" ->
           Request("crossref/works", normalize_doi(call.args[1]))
      [] call.source = "datacite" ->
           Request("datacite/dois", normalize_doi(call.args[1]))
      [] call.source = "zenodo" -> fetch_zenodo_request(call.args[1])
      [] call.source = "arxiv" -> Request("arxiv/query?id_list", call.args[1])
      [] call.source = "dblp" ->
           Request("dblp/search", SearchQuery(call.args[1], call.args[2]))
      [] call.source = "semantic_scholar" ->
           Request("semanticscholar/paper/search",
                   SearchQuery(call.args[1], call.args[2]))
      [] OTHER -> fetch_openalex_request(call.args[1], call.args[2])

V_doiZenodo ==
    <<"1", "0", ".", "5", "2", "8", "1", "/", "z", "e", "n", "o", "d", "o", ".", "7">>
V_doiArxiv == P_ARXIV_DOI \o V_axid
V_short == <<"S", "h", "o", "r", "t">>
V_ng == <<"N", "g">>

\* the entries whose first round is planned
PlanEntries ==
    { ("ID" :> K1) @@ ("ENTRYTYPE" :> T_misc) @@ d @@ t @@ a @@ x :
        d \in {EmptyDict} \cup {[doi |-> v] : v \in {V_doi1, V_doiZenodo, V_doiArxiv}},
        t \in {EmptyDict} \cup {[title |-> v] : v \in {V_short, V_title}},
        a \in {EmptyDict, [author |-> V_ng]},
        x \in {EmptyDict, [eprint |-> V_axid]} }

\* src 1953-1960: the parameters validate_entry collects for the first round
FetchParams(val_fields) ==
    LET doi == Get(val_fields, "doi", <<>>)
    IN  [c_doi |-> IF doi # <<>> /\ ArxivDoiCapture(doi) = None THEN doi ELSE <<>>,
         c_arxiv_id |-> extract_arxiv_id(val_fields),
         c_title |-> Get(val_fields, "title", <<>>),
         c_author |-> Get(val_fields, "author", <<>>)]

\* validate_entry is about to call _fetch_concurrently for the entry
InitPlan ==
    /\ FnIdle
    /\ PoolIdle
    /\ \E e \in PlanEntries :
          /\ db = <<e>>
          /\ loaded = <<e>>
    /\ registries = <<EmptyDict>>
    /\ results = <<>>
    /\ lastOp = None
    /\ served = 0
    /\ phase = "planning"
    /\ futures = {}
    /\ concurrent_results = <<>>
    /\ now = 0 /\ threads = <<>> /\ arxiv_lock = 0
    /\ request_log = {}

\* src 1818-1863: the calls of the round are handed to the executor
SubmitCalls ==
    /\ phase = "planning"
    /\ LET Submitted(p) ==
               Range(FirstRoundCalls(p.c_doi, p.c_arxiv_id, p.c_title, p.c_author))
       IN  futures' = Submitted(FetchParams(ValFields(db[1])))
    /\ phase' = "fetching"
    /\ UNCHANGED <<db, registries, results, concurrent_results>>
    /\ UNCHANGED notFetch

\* a worker of the executor runs one submitted call: the adapter builds its
\* request and sends it; no registry of this specification holds a record
AdapterRuns ==
    /\ phase = "fetching"
    /\ \E call \in futures :
          /\ futures' = futures \ {call}
          /\ request_log' =
                request_log \cup {[source |-> call.source, request |-> RequestOf(call)]}
    /\ UNCHANGED <<fnVars, sessionVars, phase, concurrent_results, poolVars,
                   now, threads, arxiv_lock>>

NextPlan == SubmitCalls \/ AdapterRuns

SpecPlan == InitPlan /\ [][NextPlan]_vars

\* the sources whose call was submitted: still outstanding, or run
Scheduled == {call.source : call \in futures} \cup {r.source : r \in request_log}

\* C19: for an entry whose DOI is a Zenodo DOI (10.5281/zenodo. and a record
\* number), the first round schedules Zenodo and DataCite and does not
\* schedule Crossref.
C19_ZenodoDoiSkipsCrossref ==
    (phase = "fetching"
        /\ StartsWith(Lower(Get(ValFields(db[1]), "doi", <<>>)),
                      P_ZENODO_PREFIX \o P_ZENODO \o <<".">>)) =>
        /\ "zenodo" \in Scheduled
        /\ "datacite" \in Scheduled
        /\ "crossref" \notin Scheduled

\* C20: in the first round, an entry with a non-arXiv DOI has OpenAlex queried
\* by DOI, an identifier lookup of that DOI; OpenAlex is queried by title only
\* when no DOI was provided and the title is longer than 10 characters; the
\* DOI is never sent as a title search and the title never as a DOI lookup.
C20_OpenAlexByDoiElseTitle ==
    \A r \in request_log :
        r.source = "openalex" =>
            LET p == FetchParams(ValFields(db[1]))
                lookup == "openalex/works/doi"
                search == "openalex/works?filter=title.search"
            IN  /\ p.c_doi # <<>> => r.request = Request(lookup, normalize_doi(p.c_doi))
                /\ r.request.endpoint = search =>
                      /\ p.c_doi = <<>>
                      /\ Len(p.c_title) > 10
                      /\ r.request.key = p.c_title
                /\ r.request.endpoint = lookup =>
                      /\ p.c_doi # <<>>
                      /\ r.request.key = normalize_doi(p.c_doi)


\* ---------------------------------------------------------------------------
\* Specification SpecArxiv: validate_entry of entries that carry an arXiv
\* identifier, in their DOI or in eprint (src 1929-2017, 2071)
\* ---------------------------------------------------------------------------

\* a variant of DoiValid that knows the DOI registries only
DoiValidByRegistry(val_fields, first_round, world) ==
    LET p == FetchParams(val_fields)
    IN  /\ p.c_doi # <<>>
        /\ {"crossref", "zenodo", "datacite"} \cap ODKeys(first_round) # {}

\* src 1975-1998, 2013-2017, 2054-2071: result.doi_valid, from the records of
\* the first round
DoiValid(val_fields, first_round, world) ==
    LET doi == Get(val_fields, "doi", <<>>)
        p == FetchParams(val_fields)
        pmid == IF Get(val_fields, "pmid", <<>>) # <<>> THEN val_fields["pmid"]
                ELSE Get(val_fields, "pubmed", <<>>)
        withPubmed == IF pmid # <<>> THEN FetchInto(first_round, "pubmed", world)
                      ELSE first_round
    IN  \/ /\ p.c_doi # <<>>
           /\ \/ {"crossref", "zenodo", "datacite"} \cap ODKeys(first_round) # {}
              \/ /\ "openalex" \in ODKeys(first_round)
                 /\ Lower(Get(ODGet(first_round, "openalex"), "doi", <<>>))
                       = Lower(p.c_doi)
        \/ /\ Given(p.c_arxiv_id)
           /\ "arxiv" \in ODKeys(first_round)
           /\ doi # <<>> /\ ArxivDoiCapture(doi) # None
        \/ /\ doi = <<>>
           /\ Given(DiscoverDoi(<<"dblp", "semantic_scholar", "openalex", "pubmed">>,
                                withPubmed))

V_doiArxivUrl == P_HTTPS_DOI \o V_doiArxiv
V_archive == <<"a", "r", "X", "i", "v">>

\* the entries: an arXiv DOI in two spellings, a registry DOI, or none; with
\* and without a title to search by, eprint and archiveprefix
ArxivEntries ==
    { ("ID" :> K1) @@ ("ENTRYTYPE" :> ty) @@ d @@ t @@ x :
        ty \in {T_misc, T_article},
        d \in {EmptyDict} \cup {[doi |-> v] : v \in {V_doiArxiv, V_doiArxivUrl, V_doi1}},
        t \in {EmptyDict, [title |-> V_title]},
        x \in {EmptyDict, [eprint |-> V_axid, archiveprefix |-> V_archive]} }

ArxivRegistries ==
    { c @@ s @@ a :
        c \in {EmptyDict, "crossref" :> CrossrefRecord},
        s \in {EmptyDict, "semantic_scholar" :> ScholarRecord},
        a \in {EmptyDict, "arxiv" :> ArxivRecord} }

\* validate_entry has submitted the futures of the first round
InitArxiv ==
    /\ FnIdle
    /\ PoolIdle
    /\ RateIdle
    /\ \E e \in ArxivEntries, w \in ArxivRegistries :
          /\ db = <<e>>
          /\ registries = <<w>>
          /\ loaded = <<e>>
          /\ futures = Range(PlanOf(ValFields(e)))
    /\ results = <<>>
    /\ lastOp = None
    /\ served = 0
    /\ phase = "fetching"
    /\ concurrent_results = <<>>

SpecArxiv == InitArxiv /\ [][NextFetch]_vars

\* C21: for an entry whose DOI is an arXiv DOI, Crossref is never requested,
\* arXiv is queried with the identifier extracted from the entry, and
\* doi_valid is true if and only if arXiv returned a record.
C21_ArxivDoiValidatedByArxiv ==
    LET Holds(val_fields, p) ==
            ArxivDoiCapture(Get(val_fields, "doi", <<>>)) # None =>
                /\ "crossref" \notin Range(AdapterCalls(db[1], registries[1]))
                /\ Given(extract_arxiv_id(val_fields))
                /\ CallOf("arxiv", <<extract_arxiv_id(val_fields)>>)
                       \in Range(FirstRoundCalls(p.c_doi, p.c_arxiv_id, p.c_title,
                                                 p.c_author))
                /\ DoiValid(val_fields, concurrent_results, registries[1])
                       <=> "arxiv" \in DOMAIN registries[1]
    IN  phase = "merged" => Holds(ValFields(db[1]), FetchParams(ValFields(db[1])))

\* C21's case: the DOI was written as a doi.org link of an arXiv DOI, arXiv
\* returned the record, and the DOI counts as valid
C21_Witness ==
    /\ phase = "merged"
    /\ db[1]["ID"] = K1 /\ Get(db[1], "doi", <<>>) = V_doiArxivUrl
    /\ "arxiv" \in DOMAIN registries[1]
    /\ "arxiv" \in ODKeys(results[1].all_sources_data)
    /\ DoiValid(ValFields(db[1]), concurrent_results, registries[1])


\* C22: an arXiv-only preprint, @misc with title, eprint and archiveprefix,
\* for which arXiv returns a record without journal reference or DOI: the
\* entry type stays misc, no DOI is proposed, and fields_updated holds both
\* eprint and eprinttype.
C22_ArxivOnlyPreprint ==
    ( /\ phase = "merged"
      /\ db[1]["ENTRYTYPE"] = T_misc
      /\ {"title", "eprint", "archiveprefix"} \subseteq DOMAIN db[1]
      /\ "doi" \notin DOMAIN db[1]
      /\ ODKeys(results[1].all_sources_data) = {"arxiv"}
      /\ ~Truthy(registries[1]["arxiv"], "journal")
      /\ ~Truthy(registries[1]["arxiv"], "doi") ) =>
        /\ results[1].entry_type = T_misc
        /\ "entrytype" \notin DOMAIN results[1].fields_updated
        /\ "doi" \notin DOMAIN results[1].fields_updated
        /\ {"eprint", "eprinttype"} \subseteq DOMAIN results[1].fields_updated


\* ---------------------------------------------------------------------------
\* Specification SpecRaw: validate_entry of entries as the file spells them,
\* before the Normalizer (src 1885-1907, 2171-2176)
\* ---------------------------------------------------------------------------

V_doiUrl == P_HTTPS_DOI \o V_doi1

\* the entries: the DOI plain or as a doi.org link, the journal under its
\* BibTeX or its BibLaTeX name, the type plain or an alias
RawEntries ==
    { ("ID" :> K1) @@ ("ENTRYTYPE" :> ty) @@ ("title" :> V_title) @@ d @@ j @@ y :
        ty \in {T_article, T_misc, T_online},
        d \in {EmptyDict, [doi |-> V_doi1], [doi |-> V_doiUrl]},
        j \in {EmptyDict, [journal |-> V_nature], [journaltitle |-> V_nature]},
        y \in {EmptyDict, [year |-> V_2017]} }

RawRegistries ==
    { c @@ s :
        c \in {EmptyDict, "crossref" :> CrossrefRecord},
        s \in {EmptyDict, "semantic_scholar" :> ScholarRecord} }

\* validate_entry has submitted the futures of the first round
InitRaw ==
    /\ FnIdle
    /\ PoolIdle
    /\ RateIdle
    /\ \E e \in RawEntries, w \in RawRegistries :
          /\ db = <<e>>
          /\ registries = <<w>>
          /\ loaded = <<e>>
          /\ futures = Range(PlanOf(ValFields(e)))
    /\ results = <<>>
    /\ lastOp = None
    /\ served = 0
    /\ phase = "fetching"
    /\ concurrent_results = <<>>

SpecRaw == InitRaw /\ [][NextFetch]_vars

\* C23: the comparator and the merger consume the canonical entry only: the
\* classification of every field is the one obtained by comparing the
\* Normalizer's output with the source records.
C23_ComparesCanonicalEntry ==
    phase = "merged" =>
        ClassMaps(results[1])
            = ClassMaps(PriorityMerge(ValFields(db[1]), results[1].all_sources_data))


\* C24: when the entry had no DOI and the first round discovered one, the
\* recursive round requests Crossref, DataCite, OpenAlex and, for a Zenodo
\* DOI, Zenodo, each unless the first round already fetched it; DataCite is
\* requested even when Crossref or Zenodo returned data.
C24_RecursiveRoundFetchesAll ==
    LET Holds(doi, new_doi, calls) ==
            (doi = <<>> /\ Given(new_doi)) =>
                \A s \in {"crossref", "datacite", "openalex"}
                         \cup (IF Contains(Lower(new_doi), P_ZENODO)
                               THEN {"zenodo"} ELSE {}) :
                    s \notin ODKeys(concurrent_results) => s \in Range(calls)
    IN  phase = "merged" =>
            Holds(Get(ValFields(db[1]), "doi", <<>>),
                  DiscoverDoi(<<"dblp", "semantic_scholar", "openalex", "pubmed">>,
                              concurrent_results),
                  DoiRoundCalls(Get(ValFields(db[1]), "doi", <<>>), concurrent_results,
                                registries[1]))


\* no element occurs twice
NoRepeat(calls) == \A i, j \in DOMAIN calls : calls[i] = calls[j] => i = j

ProceedingsRule(fs) ==
    /\ Contains(Lower(Get(fs, "title", <<>>)), P_PROCEEDINGS)
    /\ "editor" \in DOMAIN fs
    /\ "author" \notin DOMAIN fs

\* C26: an entry that is misc after aliasing, carries a Zenodo DOI (prefix
\* 10.5281/) and matches neither the proceedings rule nor the booktitle rule
\* keeps the type misc, whatever its other fields (a journal included)
C26_ZenodoStaysMisc ==
    (/\ fnStep >= 1
     /\ TypeAlias(fnArg.entry_type) = T_misc
     /\ StartsWith(Get(fnOut.fields, "doi", <<>>), P_ZENODO_PREFIX)
     /\ ~ProceedingsRule(fnOut.fields)
     /\ "booktitle" \notin DOMAIN fnOut.fields)
    => fnOut.entry_type = T_misc

\* C27 as stated: an entry whose aliased type is not misc leaves the
\* Normalizer with its aliased type
C27_PromotionOnlyMisc ==
    (fnStep >= 1 /\ TypeAlias(fnArg.entry_type) # T_misc)
    => fnOut.entry_type = TypeAlias(fnArg.entry_type)

\* C27 amended: the booktitle rule and the DOI rule apply only to entries
\* whose aliased type is misc, the proceedings rule applies to every type:
\* an entry that matches the proceedings rule leaves as proceedings, and an
\* entry of another aliased type than misc that does not match it keeps its
\* aliased type
C27_OnlyProceedingsRuleIsGeneral ==
    fnStep >= 1 =>
        /\ ProceedingsRule(fnOut.fields) => fnOut.entry_type = T_proceedings
        /\ (~ProceedingsRule(fnOut.fields) /\ TypeAlias(fnArg.entry_type) # T_misc)
            => fnOut.entry_type = TypeAlias(fnArg.entry_type)

\* an article with a booktitle went through the Normalizer and is an article
C27_Witness ==
    /\ fnStep >= 1
    /\ fnArg.entry_type = T_article
    /\ "booktitle" \in DOMAIN fnArg.fields
    /\ fnOut.entry_type = T_article

\* ---------------------------------------------------------------------------
\* Specification SpecNear: validate_entry of entries whose journal and year
\* the sources spell nearly or entirely otherwise (src 1463-1495, 1555-1579,
\* 1659-1690)
\* ---------------------------------------------------------------------------

V_lancet == <<"L", "a", "n", "c", "e", "t">>

NearEntries ==
    { LocalEntry(K1, T_article, [doi |-> V_doi1] @@ j @@ y) :
        j \in {EmptyDict, [journal |-> V_nature], [journal |-> V_lancet]},
        y \in {EmptyDict, [year |-> V_2016]} }

NearRegistries ==
    { c @@ s @@ a :
        c \in {EmptyDict} \cup
              { "crossref" :> (("container-title" :> jc) @@ CrossrefRecord) :
                    jc \in {V_nature, V_natur, V_lancet} },
        s \in {EmptyDict} \cup
              { "semantic_scholar" :> [ScholarRecord EXCEPT !.journal = js] :
                    js \in {V_natur, V_lancet} },
        a \in {EmptyDict, "arxiv" :> ArxivRecord} }

\* validate_entry has submitted the futures of the first round
InitNear ==
    /\ FnIdle
    /\ PoolIdle
    /\ RateIdle
    /\ \E e \in NearEntries, w \in NearRegistries :
          /\ db = <<e>>
          /\ registries = <<w>>
          /\ loaded = <<e>>
          /\ futures = Range(PlanOf(ValFields(e)))
    /\ results = <<>>
    /\ lastOp = None
    /\ served = 0
    /\ phase = "fetching"
    /\ concurrent_results = <<>>

SpecNear == InitNear /\ [][NextFetch]_vars

\* C28: for every source and every field other than pages, title and author
\* whose local and API values are both longer than 3 characters and differ
\* after normalization, the comparator reports the field as different when the
\* Jaccard similarity of the character sets of the two normalized values is
\* above 0.7 and as a conflict otherwise.
C28_SimilarityDecidesDifferent ==
    phase = "merged" =>
        \A source \in ODKeys(results[1].all_sources_data) :
            LET Decided(cmp) ==
                    \A f \in (DOMAIN cmp.conflicts \cup DOMAIN cmp.different)
                                \ {"pages", "title", "author"} :
                        LET Near(pair) ==
                                LET Sim(bib_normalized, api_normalized) ==
                                        (/\ Len(pair[1]) > 3
                                         /\ Len(pair[2]) > 3
                                         /\ bib_normalized # api_normalized)
                                        => (f \in DOMAIN cmp.different
                                            <=> SimilarityAbove(calculate_similarity(
                                                    bib_normalized, api_normalized)))
                                IN  Sim(normalize_string_for_comparison(pair[1], f),
                                        normalize_string_for_comparison(pair[2], f))
                        IN  Near(IF f \in DOMAIN cmp.different
                                 THEN cmp.different[f] ELSE cmp.conflicts[f])
            IN  Decided(compare_fields(db[1],
                                       ODGet(results[1].all_sources_data, source),
                                       source))

\* ---------------------------------------------------------------------------
\* Specification SpecCommit: save_updated_bib of a library of one record, and
\* of what it left (src 2514-2555)
\* ---------------------------------------------------------------------------

T_dataset == <<"d", "a", "t", "a", "s", "e", "t">>

\* field names a record may carry; abstract is in no schema
CommitFieldNames ==
    {"author", "chapter", "pages", "publisher", "journal", "booktitle", "abstract"}

\* the types of the records: dataset has no schema of its own
CommitTypes == {T_inbook, T_book, T_article, T_misc, T_dataset}

InitCommit ==
    /\ SessionIdle
    /\ FetchIdle
    /\ PoolIdle
    /\ RateIdle
    /\ \E t \in CommitTypes, names \in SUBSET CommitFieldNames :
           fnArg = << ("ID" :> K1) @@ ("ENTRYTYPE" :> t) @@ ("title" :> V_title)
                      @@ [k \in names |-> <<"v">>] >>
    /\ fnField = None
    /\ fnOut = None
    /\ fnOut2 = None
    /\ fnStep = 0

SaveUpdatedBibOnce ==
    /\ fnStep = 0
    /\ fnOut' = save_updated_bib(fnArg)
    /\ fnStep' = 1
    /\ UNCHANGED <<fnArg, fnField, fnOut2>>
    /\ UNCHANGED notFn

SaveUpdatedBibAgain ==
    /\ fnStep = 1
    /\ fnOut2' = save_updated_bib(fnOut)
    /\ fnStep' = 2
    /\ UNCHANGED <<fnArg, fnField, fnOut>>
    /\ UNCHANGED notFn

NextCommit == SaveUpdatedBibOnce \/ SaveUpdatedBibAgain

SpecCommit == InitCommit /\ [][NextCommit]_vars

\* the fields the schema of a type names (required, required-any, optional,
\* extended), and the common fields
SchemaNamed(t) ==
    LET Named(schema) ==
            schema.required \cup schema.required_any \cup schema.optional
            \cup schema.extended \cup COMMON_FIELDS
    IN  Named(FIELD_SCHEMA(IF t \in SchemaTypes THEN t ELSE T_misc))

\* C29: save_updated_bib drops from no record a field that the schema of the
\* record's type names as required, required-any, optional or extended, nor a
\* common field: chapter and pages of an inbook record survive the commit.
C29_SchemaFieldsSurviveCommit ==
    fnStep >= 1 =>
        \A i \in DOMAIN fnArg :
            \A k \in DOMAIN fnArg[i] :
                k \in SchemaNamed(Lower(fnArg[i]["ENTRYTYPE"]))
                    => k \in DOMAIN fnOut[i]

\* C30: a save request takes an accepted field out of the pending maps only
\* if it wrote a value for the field to the record: a field for which the
\* selected source yields no value stays pending, and a request that answers
\* that nothing was applied or restored leaves the record and the pending
\* maps as they were.
C30_PendingDroppedOnlyWhenWritten ==
    [][ lastOp'.op = "save" =>
            LET ei == EntryIndex(db, lastOp'.entry_key)
                ri == ResultIndex(results, lastOp'.entry_key)
                Pending(result) ==
                    DOMAIN result.fields_updated \cup DOMAIN result.fields_conflict
                    \cup DOMAIN result.fields_different
                Offered(f) ==
                    {ProposedValue(results[ri], f)}
                    \cup {SelectedValue(db[ei], results[ri], f, s) :
                            s \in ODKeys(results[ri].all_sources_data)}
                Written(f) ==
                    /\ lastOp'.status # "nothing_applied"
                    /\ IF f = "entrytype" THEN db'[ei]["ENTRYTYPE"] \in Offered(f) \ {None}
                       ELSE f \in DOMAIN db'[ei] /\ db'[ei][f] \in Offered(f) \ {None}
            IN  /\ \A f \in Pending(results[ri]) \ Pending(results'[ri]) : Written(f)
                /\ lastOp'.status = "nothing_applied" =>
                      /\ db' = db
                      /\ \A i \in DOMAIN results :
                            PendingMaps(results'[i]) = PendingMaps(results[i]) ]_vars

====
